---- MODULE Spec2Model ----
(***************************************************************************)
(* MoMo offering counter: the ledger (offerings, daily_summaries), the     *)
(* status transition (updateStatusTxn) and the handlers that drive it:     *)
(* creation, the provider webhook, the status poll and the manual update.  *)
(*                                                                         *)
(* The process is a single Node.js event loop over a synchronous SQLite    *)
(* binding: a handler runs without interruption up to its next `await`,    *)
(* so every action below is the code between two awaits.  The payment      *)
(* provider is outside the program; what it answers is an input.           *)
(*                                                                         *)
(* Time is a counter of ticks.  SQLite's CURRENT_TIMESTAMP is UTC; the     *)
(* JavaScript Date getters used by getTodayDateString/generateReference    *)
(* are in the server's time zone, tzOffset ticks ahead of UTC (behind it   *)
(* when negative).                                                         *)
(***************************************************************************)
EXTENDS Integers, Sequences, FiniteSets, TLC

\* ------------------------------------------------------------------ bounds
MaxOfferings == 2
MaxClock == 1
TicksPerDay == 2
MaxPolls == 1
MaxQueue == 0
MaxRetryClock == 12
MaxSweeps == 2

\* ------------------------------------------------------------------ values
NULL == "NULL"
Categories == {"TITHE", "OFFR"}
UnknownCategory == "NOPE"
ValidStatuses == {"PENDING", "SUCCESSFUL", "FAILED"}
UnrecognizedStatus == "REJECTED"
ProviderStatuses == ValidStatuses \cup {UnrecognizedStatus, NULL}
FtIds == {"", "FT1"}
\* req.body.amount as text, one character per element ("" when missing)
AmountInputs == {<< >>, <<"0">>, <<"-", "2">>, <<"2">>, <<"a">>, <<"2", "a">>}
PhoneInputs == {NULL, "233240000000"}
TZOffsets == {-1, 0}
Faults == {"none", "first_write", "second_write"}

VARIABLES
  clock,            \* UTC time, in ticks
  tzOffset,         \* server time zone, ticks ahead of UTC (fixed at start)
  offerings,        \* table offerings: sequence of rows, in id order
  daily_summaries,  \* table daily_summaries: <<summary_date, category_code>> -> row
  pending_queue,    \* table pending_queue: sequence of rows, in id order
  polls,            \* poll handlers awaiting checkStatus: set of the rows they read
  resp,             \* what the handler step of the current turn did
  issued,           \* history: per offering id, the sum of the counter deltas that the
                    \* committed transitions of that offering passed to updateDailySummaryCounters
  DEMO_MODE,        \* momoService.js DEMO_MODE (process.env, fixed at start)
  demoStatuses,     \* momoService.js demoStatuses: momo reference id -> simulated entry
  timers,           \* momo reference ids whose setTimeout callback has not run yet
  sweeps,           \* retry sweeps awaiting requestToPay: set of [at, items, pos, started]
  nextSweepAt,      \* the time the retry worker's timer fires next
  submits,          \* creation handlers awaiting requestToPay: set of [row |-> offering id]
  cachedToken,      \* momoService.js cachedToken (NoToken: null or undefined)
  tokenExpiresAt,   \* momoService.js tokenExpiresAt
  tokenFetches,     \* getToken calls awaiting the token request: set of [id, now]
  tokenCalls,       \* history: the number of getToken calls made so far
  tokenResult       \* history: how the getToken call that ended last ended

tokenVars == <<cachedToken, tokenExpiresAt, tokenFetches, tokenCalls, tokenResult>>

vars == <<clock, tzOffset, offerings, daily_summaries, pending_queue, polls, resp, issued,
          DEMO_MODE, demoStatuses, timers, submits, sweeps, nextSweepAt,
          cachedToken, tokenExpiresAt, tokenFetches, tokenCalls, tokenResult>>

\* Tokens are [request |-> the getToken call whose token request the provider
\* answered with it]; NoToken is JavaScript's null and undefined
NoToken == [request |-> 0]

\* What tokenResult holds while no getToken call has ended
NoTokenResult == [id |-> 0, how |-> "none", token |-> NoToken, asked |-> FALSE]

\* The token cache of a process in which getToken has not been called
TokenCacheEmpty ==
  /\ cachedToken = NoToken
  /\ tokenExpiresAt = 0
  /\ tokenFetches = {}
  /\ tokenCalls = 0
  /\ tokenResult = NoTokenResult

\* ------------------------------------------------------------------ helpers.js, dates

\* created_at.split(' ')[0] and SQLite DATE(created_at): the UTC date of a timestamp
DateOf(ts) == ts \div TicksPerDay

\* helpers.js getTodayDateString: today's date in the server's local time zone
getTodayDateString(now, tz) == (now + tz) \div TicksPerDay

\* JavaScript parseFloat on a string: the number its longest numeric prefix spells
\* (an optional sign, then digits), NaN when it has none; what follows is ignored.
\* A JavaScript number is [nan |-> is it NaN, value |-> its value otherwise].
DigitChars == {"0", "1", "2", "3", "4", "5", "6", "7", "8", "9"}

DigitValue(c) ==
  CASE c = "0" -> 0 [] c = "1" -> 1 [] c = "2" -> 2 [] c = "3" -> 3 [] c = "4" -> 4
    [] c = "5" -> 5 [] c = "6" -> 6 [] c = "7" -> 7 [] c = "8" -> 8 [] c = "9" -> 9

RECURSIVE DigitRun(_)
DigitRun(s) ==
  IF s = << >> \/ Head(s) \notin DigitChars THEN << >>
  ELSE <<Head(s)>> \o DigitRun(Tail(s))

RECURSIVE DecimalValue(_)
DecimalValue(ds) ==
  IF ds = << >> THEN 0
  ELSE 10 * DecimalValue(SubSeq(ds, 1, Len(ds) - 1)) + DigitValue(ds[Len(ds)])

parseFloat(s) ==
  LET negative == s # << >> /\ Head(s) = "-"
      ds == DigitRun(IF negative THEN Tail(s) ELSE s)
  IN  IF ds = << >> THEN [nan |-> TRUE, value |-> 0]
      ELSE [nan |-> FALSE,
            value |-> IF negative THEN 0 - DecimalValue(ds) ELSE DecimalValue(ds)]

isNaN(x) == x.nan

\* The request fields the creation handler rejects: a missing phone, amount or
\* category, an amount that parses to NaN or to a number <= 0, an unknown category
InvalidOffering(phone, amount, category) ==
  \/ phone = NULL
  \/ amount = << >>
  \/ category = NULL
  \/ isNaN(parseFloat(amount))
  \/ parseFloat(amount).value <= 0
  \/ category \notin Categories

\* JavaScript `x || null`
OrNull(x) == IF x = NULL \/ x = "" THEN NULL ELSE x

\* ------------------------------------------------------------------ prepared statements

\* SELECT * FROM offerings WHERE reference_number = ? (the row's id, 0 when none)
getOfferingByRef(o, referenceNumber) ==
  IF \E i \in 1 .. Len(o) : o[i].reference_number = referenceNumber
  THEN CHOOSE i \in 1 .. Len(o) : o[i].reference_number = referenceNumber
  ELSE 0

\* referenceGen.js countTodayByCategory
countTodayByCategory(o, categoryCode, todayStr) ==
  Cardinality({i \in 1 .. Len(o) :
     o[i].category_code = categoryCode /\ DateOf(o[i].created_at) = todayStr})

\* referenceGen.js generateReference: {CATEGORY}-{YYYY}-{MMDD}-{SEQ}
generateReference(o, categoryCode, now, tz) ==
  LET todayStr == (now + tz) \div TicksPerDay
  IN  [category |-> categoryCode, date |-> todayStr,
       seq |-> countTodayByCategory(o, categoryCode, todayStr) + 1]

\* referenceGen.js generateMomoReferenceId: a fresh UUID
generateMomoReferenceId(o) == Len(o) + 1

\* INSERT INTO offerings (...) VALUES (..., 'PENDING'); created_at, updated_at default to CURRENT_TIMESTAMP
insertOffering(o, refNumber, momoRefId, category, amount, now) ==
  Append(o, [reference_number |-> refNumber, momo_reference_id |-> momoRefId,
             category_code |-> category, amount |-> amount, status |-> "PENDING",
             financial_txn_id |-> NULL, created_at |-> now, updated_at |-> now])

\* upsertDailySummary whose ON CONFLICT branch does nothing
upsertDailySummaryDoNothing(s, summaryDate, category, amount) ==
  LET k == <<summaryDate, category>>
  IN  IF k \in DOMAIN s
      THEN s
      ELSE [x \in DOMAIN s \cup {k} |->
              IF x = k THEN [total_count |-> 1, total_amount |-> amount,
                             success_count |-> 0, failed_count |-> 0]
              ELSE s[x]]

\* INSERT INTO daily_summaries ... ON CONFLICT DO UPDATE SET total_count + 1, total_amount + excluded
upsertDailySummary(s, summaryDate, category, amount) ==
  LET k == <<summaryDate, category>>
  IN  IF k \in DOMAIN s
      THEN [s EXCEPT ![k].total_count = @ + 1, ![k].total_amount = @ + amount]
      ELSE [x \in DOMAIN s \cup {k} |->
              IF x = k THEN [total_count |-> 1, total_amount |-> amount,
                             success_count |-> 0, failed_count |-> 0]
              ELSE s[x]]

\* UPDATE offerings SET status = ?, financial_txn_id = ?, updated_at = CURRENT_TIMESTAMP WHERE reference_number = ?
updateOfferingStatus(o, status, financialTxnId, referenceNumber, now) ==
  [i \in 1 .. Len(o) |->
     IF o[i].reference_number = referenceNumber
     THEN [o[i] EXCEPT !.status = status, !.financial_txn_id = financialTxnId,
                       !.updated_at = now]
     ELSE o[i]]

\* updateDailySummaryCounters that writes the deltas over the counters (SET success_count = ?)
updateDailySummaryCountersOverwrite(s, successDelta, failedDelta, summaryDate, category) ==
  LET k == <<summaryDate, category>>
  IN  IF k \in DOMAIN s
      THEN [s EXCEPT ![k].success_count = successDelta,
                     ![k].failed_count = failedDelta]
      ELSE s

\* updateDailySummaryCounters without `summary_date = ?`: every bucket of the category
updateDailySummaryCountersAnyDate(s, successDelta, failedDelta, summaryDate, category) ==
  [k \in DOMAIN s |->
     IF k[2] = category
     THEN [s[k] EXCEPT !.success_count = @ + successDelta,
                       !.failed_count = @ + failedDelta]
     ELSE s[k]]

\* UPDATE daily_summaries SET success_count + ?, failed_count + ? WHERE summary_date = ? AND category_code = ?
updateDailySummaryCounters(s, successDelta, failedDelta, summaryDate, category) ==
  LET k == <<summaryDate, category>>
  IN  IF k \in DOMAIN s
      THEN [s EXCEPT ![k].success_count = @ + successDelta,
                     ![k].failed_count = @ + failedDelta]
      ELSE s

\* pending_queue.last_attempt_at of an entry that was never attempted (SQL NULL)
NeverAttempted == -1

\* note || `${cat.name} Offering` of a request without a note
DefaultMessage(category) == <<category, "Offering">>

\* INSERT INTO pending_queue (...): retry_count 0, last_attempt_at NULL, created_at now
insertPendingQueue(q, refNumber, momoRefId, amount, phone, message, now) ==
  Append(q, [reference_number |-> refNumber, momo_reference_id |-> momoRefId,
             amount |-> amount, phone_number |-> phone, payer_message |-> message,
             retry_count |-> 0, last_attempt_at |-> NeverAttempted,
             created_at |-> now])

\* ------------------------------------------------------------------ transactions

\* What a transaction body did: the tables as it left them, whether it threw, its
\* return value, the status it found (old) and the counter deltas it passed on (delta)
Result(o, s, threw, value, old, delta) ==
  [offerings |-> o, daily_summaries |-> s, threw |-> threw, value |-> value,
   old |-> old, delta |-> delta]

NoDelta == [successDelta |-> 0, failedDelta |-> 0]

\* The transaction body run without BEGIN/ROLLBACK: what it wrote before throwing stays
transactionNoRollback(o, s, r) == r

\* better-sqlite3 db.transaction(fn): run fn inside BEGIN/COMMIT; when fn throws,
\* ROLLBACK everything it wrote and rethrow.  r is what the body did to its
\* working copy of the tables o, s.
transaction(o, s, r) ==
  IF r.threw THEN Result(o, s, TRUE, "threw", r.old, NoDelta) ELSE r

\* getStatusDelta that credits the new status without debiting the old one
getStatusDeltaIgnoringOld(oldStatus, newStatus) ==
  [successDelta |-> (IF newStatus = "SUCCESSFUL" THEN 1 ELSE 0),
   failedDelta  |-> (IF newStatus = "FAILED" THEN 1 ELSE 0)]

\* offerings.js getStatusDelta
getStatusDelta(oldStatus, newStatus) ==
  [successDelta |-> (IF oldStatus = "SUCCESSFUL" THEN -1 ELSE 0)
                    + (IF newStatus = "SUCCESSFUL" THEN 1 ELSE 0),
   failedDelta  |-> (IF oldStatus = "FAILED" THEN -1 ELSE 0)
                    + (IF newStatus = "FAILED" THEN 1 ELSE 0)]

\* callbacks.js getStatusDelta (the webhook's copy)
getStatusDelta_cb(oldStatus, newStatus) ==
  [successDelta |-> (IF oldStatus = "SUCCESSFUL" THEN -1 ELSE 0)
                    + (IF newStatus = "SUCCESSFUL" THEN 1 ELSE 0),
   failedDelta  |-> (IF oldStatus = "FAILED" THEN -1 ELSE 0)
                    + (IF newStatus = "FAILED" THEN 1 ELSE 0)]

\* updateStatusTxn (offerings.js) without its `offering.status === newStatus` return
updateStatusTxnNoCheck(o, s, referenceNumber, newStatus, financialTxnId, now, fault) ==
  LET i == getOfferingByRef(o, referenceNumber)
  IN  IF i = 0
      THEN Result(o, s, FALSE, "notfound", NULL, NoDelta)
      ELSE
        LET offering == o[i]
            oldStatus == offering.status
            o1 == updateOfferingStatus(o, newStatus, OrNull(financialTxnId),
                                       referenceNumber, now)
            d == getStatusDelta(oldStatus, newStatus)
            s1 == updateDailySummaryCounters(s, d.successDelta, d.failedDelta,
                                             DateOf(offering.created_at),
                                             offering.category_code)
        IN  transaction(o, s,
              IF fault = "first_write"
              THEN Result(o, s, TRUE, "threw", oldStatus, NoDelta)
              ELSE IF fault = "second_write"
              THEN Result(o1, s, TRUE, "threw", oldStatus, NoDelta)
              ELSE Result(o1, s1, FALSE, "changed", oldStatus, d))

\* offerings.js updateStatusTxn.  fault: which of the two writes throws, if any.
\* value: "notfound" (null), "unchanged" (changed: false), "changed", "threw".
updateStatusTxn(o, s, referenceNumber, newStatus, financialTxnId, now, fault) ==
  LET i == getOfferingByRef(o, referenceNumber)
  IN  IF i = 0
      THEN Result(o, s, FALSE, "notfound", NULL, NoDelta)
      ELSE
        LET offering == o[i]
            oldStatus == offering.status
        IN  IF oldStatus = newStatus
            THEN Result(o, s, FALSE, "unchanged", oldStatus, NoDelta)
            ELSE
              LET o1 == updateOfferingStatus(o, newStatus, OrNull(financialTxnId),
                                             referenceNumber, now)
                  summaryDate == DateOf(offering.created_at)
                  d == getStatusDelta(oldStatus, newStatus)
                  s1 == updateDailySummaryCounters(s, d.successDelta, d.failedDelta,
                                                   summaryDate, offering.category_code)
              IN  transaction(o, s,
                    IF fault = "first_write"
                    THEN Result(o, s, TRUE, "threw", oldStatus, NoDelta)
                    ELSE IF fault = "second_write"
                    THEN Result(o1, s, TRUE, "threw", oldStatus, NoDelta)
                    ELSE Result(o1, s1, FALSE, "changed", oldStatus, d))

\* updateStatusTxn (callbacks.js) without its `offering.status === newStatus` return
updateStatusTxnNoCheck_cb(o, s, referenceNumber, newStatus, financialTxnId, now, fault) ==
  LET i == getOfferingByRef(o, referenceNumber)
  IN  IF i = 0
      THEN Result(o, s, FALSE, "notfound", NULL, NoDelta)
      ELSE
        LET offering == o[i]
            oldStatus == offering.status
            o1 == updateOfferingStatus(o, newStatus, OrNull(financialTxnId),
                                       referenceNumber, now)
            d == getStatusDelta_cb(oldStatus, newStatus)
            s1 == updateDailySummaryCounters(s, d.successDelta, d.failedDelta,
                                             DateOf(offering.created_at),
                                             offering.category_code)
        IN  transaction(o, s,
              IF fault = "first_write"
              THEN Result(o, s, TRUE, "threw", oldStatus, NoDelta)
              ELSE IF fault = "second_write"
              THEN Result(o1, s, TRUE, "threw", oldStatus, NoDelta)
              ELSE Result(o1, s1, FALSE, "changed", oldStatus, d))

\* updateStatusTxn (callbacks.js) that dereferences the missing row instead of
\* returning null: the handler's catch answers 500
updateStatusTxnThrowOnMissing_cb(o, s, referenceNumber, newStatus, financialTxnId, now, fault) ==
  LET i == getOfferingByRef(o, referenceNumber)
  IN  IF i = 0
      THEN Result(o, s, TRUE, "threw", NULL, NoDelta)
      ELSE
        LET offering == o[i]
            oldStatus == offering.status
            o1 == updateOfferingStatus(o, newStatus, OrNull(financialTxnId),
                                       referenceNumber, now)
            d == getStatusDelta_cb(oldStatus, newStatus)
            s1 == updateDailySummaryCounters(s, d.successDelta, d.failedDelta,
                                             DateOf(offering.created_at),
                                             offering.category_code)
        IN  IF oldStatus = newStatus
            THEN Result(o, s, FALSE, "unchanged", oldStatus, NoDelta)
            ELSE transaction(o, s,
                   IF fault = "first_write"
                   THEN Result(o, s, TRUE, "threw", oldStatus, NoDelta)
                   ELSE IF fault = "second_write"
                   THEN Result(o1, s, TRUE, "threw", oldStatus, NoDelta)
                   ELSE Result(o1, s1, FALSE, "changed", oldStatus, d))

\* callbacks.js updateStatusTxn (the webhook's copy)
updateStatusTxn_cb(o, s, referenceNumber, newStatus, financialTxnId, now, fault) ==
  LET i == getOfferingByRef(o, referenceNumber)
  IN  IF i = 0
      THEN Result(o, s, FALSE, "notfound", NULL, NoDelta)
      ELSE
        LET offering == o[i]
            oldStatus == offering.status
        IN  IF oldStatus = newStatus
            THEN Result(o, s, FALSE, "unchanged", oldStatus, NoDelta)
            ELSE
              LET o1 == updateOfferingStatus(o, newStatus, OrNull(financialTxnId),
                                             referenceNumber, now)
                  summaryDate == DateOf(offering.created_at)
                  d == getStatusDelta_cb(oldStatus, newStatus)
                  s1 == updateDailySummaryCounters(s, d.successDelta, d.failedDelta,
                                                   summaryDate, offering.category_code)
              IN  transaction(o, s,
                    IF fault = "first_write"
                    THEN Result(o, s, TRUE, "threw", oldStatus, NoDelta)
                    ELSE IF fault = "second_write"
                    THEN Result(o1, s, TRUE, "threw", oldStatus, NoDelta)
                    ELSE Result(o1, s1, FALSE, "changed", oldStatus, d))

\* createOfferingTxn with its two statements run outside db.transaction
createOfferingTxnNoTransaction(o, s, category, amount, now, tz, fault) ==
  LET refNumber == generateReference(o, category, now, tz)
      momoRefId == generateMomoReferenceId(o)
      todayStr == getTodayDateString(now, tz)
      o1 == insertOffering(o, refNumber, momoRefId, category, amount, now)
      s1 == upsertDailySummary(s, todayStr, category, amount)
  IN  IF fault = "first_write" \/ getOfferingByRef(o, refNumber) # 0
      THEN Result(o, s, TRUE, "threw", NULL, NoDelta)
      ELSE IF fault = "second_write"
      THEN Result(o1, s, TRUE, "threw", NULL, NoDelta)
      ELSE Result(o1, s1, FALSE, "created", NULL, NoDelta)

\* createOfferingTxn on a table without UNIQUE(reference_number): the INSERT of a
\* reference that is already stored succeeds
createOfferingTxnNoUnique(o, s, category, amount, now, tz, fault) ==
  LET refNumber == generateReference(o, category, now, tz)
      momoRefId == generateMomoReferenceId(o)
      todayStr == getTodayDateString(now, tz)
      o1 == insertOffering(o, refNumber, momoRefId, category, amount, now)
      s1 == upsertDailySummary(s, todayStr, category, amount)
  IN  transaction(o, s,
        IF fault = "first_write"
        THEN Result(o, s, TRUE, "threw", NULL, NoDelta)
        ELSE IF fault = "second_write"
        THEN Result(o1, s, TRUE, "threw", NULL, NoDelta)
        ELSE Result(o1, s1, FALSE, "created", NULL, NoDelta))

\* offerings.js createOfferingTxn.  The INSERT throws on a duplicate reference_number
\* (UNIQUE) or when the first write is faulted; the upsert when the second is.
createOfferingTxn(o, s, category, amount, now, tz, fault) ==
  LET refNumber == generateReference(o, category, now, tz)
      momoRefId == generateMomoReferenceId(o)
      todayStr == getTodayDateString(now, tz)
      o1 == insertOffering(o, refNumber, momoRefId, category, amount, now)
      s1 == upsertDailySummary(s, todayStr, category, amount)
  IN  transaction(o, s,
        IF fault = "first_write" \/ getOfferingByRef(o, refNumber) # 0
        THEN Result(o, s, TRUE, "threw", NULL, NoDelta)
        ELSE IF fault = "second_write"
        THEN Result(o1, s, TRUE, "threw", NULL, NoDelta)
        ELSE Result(o1, s1, FALSE, "created", NULL, NoDelta))

\* ------------------------------------------------------------------ handlers

\* What the handler step of the current turn did: the outcome of the transition or
\* creation it ran (call); for a transition call, the row its reference names (row,
\* 0 when none) and the status it asked for (target); for one that reached its
\* writes, the status it found (old); for a poll, whether the status it had read
\* before `await` was no longer the stored one (stale); the HTTP status it answers
\* with (code, 0 while it has not answered) and, for a poll, the status in the body.
NoResp == [call |-> "none", row |-> 0, target |-> NULL, old |-> NULL, stale |-> FALSE,
           code |-> 0, status |-> NULL]

Answer(call, code) == [NoResp EXCEPT !.call = call, !.code = code]

Report(r, row, newStatus, stale) ==
  [call |-> r.value, row |-> row, target |-> newStatus,
   old |-> IF r.value \in {"changed", "threw"} THEN r.old ELSE NULL,
   stale |-> stale,
   code |-> IF r.value = "threw" THEN 500 ELSE IF r.value = "notfound" THEN 404 ELSE 200,
   status |-> NULL]

\* The history of issued deltas after a transition of row i returned r
Issue(i, r) ==
  IF i = 0 THEN issued
  ELSE [issued EXCEPT ![i] = [successDelta |-> @.successDelta + r.delta.successDelta,
                              failedDelta |-> @.failedDelta + r.delta.failedDelta]]

\* Creation requests: every amount with a good phone and category, every category
\* with a good phone and amount, and a request without phone
OfferingInputs ==
  {[phone |-> p, amount |-> a, category |-> c] :
     p \in PhoneInputs \ {NULL}, a \in AmountInputs, c \in {"TITHE"}}
  \cup {[phone |-> p, amount |-> <<"2">>, category |-> c] :
           p \in PhoneInputs, c \in Categories \cup {UnknownCategory, NULL}}

\* A reference that no offering carries (sequence numbers start at 1), and a missing one
UnknownRef == [category |-> "TITHE", date |-> 0, seq |-> 0]
MissingRef == [category |-> NULL, date |-> 0, seq |-> 0]
RefInputs == {offerings[i].reference_number : i \in 1 .. Len(offerings)} \cup {UnknownRef}

Init ==
  /\ clock = 0
  /\ tzOffset \in TZOffsets
  /\ offerings = << >>
  /\ daily_summaries = << >>
  /\ pending_queue = << >>
  /\ polls = {}
  /\ resp = NoResp
  /\ issued = << >>
  /\ DEMO_MODE = FALSE
  /\ demoStatuses = << >>
  /\ timers = {}
  /\ submits = {}
  /\ sweeps = {}
  /\ nextSweepAt = 0
  /\ TokenCacheEmpty

\* Time passes
Tick ==
  /\ UNCHANGED tokenVars
  /\ UNCHANGED <<sweeps, nextSweepAt>>
  /\ resp = NoResp
  /\ UNCHANGED <<DEMO_MODE, demoStatuses, timers, submits>>
  /\ clock < MaxClock
  /\ clock' = clock + 1
  /\ UNCHANGED <<tzOffset, offerings, daily_summaries, pending_queue, polls, resp, issued>>

\* The handler's turn ends (res.json has been called, or the handler awaits): the
\* event loop takes the next event
EndTurn ==
  /\ UNCHANGED tokenVars
  /\ UNCHANGED <<sweeps, nextSweepAt>>
  /\ resp # NoResp
  /\ UNCHANGED <<DEMO_MODE, demoStatuses, timers, submits>>
  /\ resp' = NoResp
  /\ UNCHANGED <<clock, tzOffset, offerings, daily_summaries, pending_queue, polls, issued>>

\* offerings.js router.post('/'): a request that fails validation
PostOfferingInvalid(phone, amount, category) ==
  /\ UNCHANGED tokenVars
  /\ UNCHANGED <<sweeps, nextSweepAt>>
  /\ resp = NoResp
  /\ UNCHANGED <<DEMO_MODE, demoStatuses, timers, submits>>
  /\ InvalidOffering(phone, amount, category)
  /\ resp' = Answer("invalid", 400)
  /\ UNCHANGED <<clock, tzOffset, offerings, daily_summaries, pending_queue, polls, issued>>

\* momoService.js requestToPay in DEMO_MODE: the entry it stores in demoStatuses
demoSet(d, referenceId, entry) ==
  [x \in DOMAIN d \cup {referenceId} |-> IF x = referenceId THEN entry ELSE d[x]]

\* offerings.js router.post('/'): createOfferingTxn, requestToPay (accepted or failed),
\* the retry entry on failure, the 202 response.  The continuation after
\* `await requestToPay` writes pending_queue only, which no other handler below reads.
\* In DEMO_MODE requestToPay always accepts, stores a PENDING entry and sets a timer.
PostOffering(phone, amount, category, fault, accepted) ==
  /\ UNCHANGED tokenVars
  /\ UNCHANGED <<sweeps, nextSweepAt>>
  /\ resp = NoResp
  /\ DEMO_MODE => accepted
  /\ UNCHANGED <<DEMO_MODE, submits>>
  /\ ~InvalidOffering(phone, amount, category)
  /\ Len(offerings) < MaxOfferings
  /\ accepted \/ Len(pending_queue) < MaxQueue
  /\ UNCHANGED <<clock, tzOffset, polls>>
  /\ LET parsedAmount == parseFloat(amount).value
         r == createOfferingTxn(offerings, daily_summaries, category, parsedAmount,
                                clock, tzOffset, fault)
         id == Len(r.offerings)
     IN  /\ offerings' = r.offerings
         /\ daily_summaries' = r.daily_summaries
         /\ pending_queue' =
              IF r.threw \/ accepted THEN pending_queue
              ELSE insertPendingQueue(pending_queue, r.offerings[id].reference_number,
                                      r.offerings[id].momo_reference_id, parsedAmount, phone,
                                      DefaultMessage(category), clock)
         /\ resp' = IF r.threw THEN Answer("threw", 500)
                    ELSE [Answer("created", 202) EXCEPT !.row = id]
         /\ issued' = IF r.threw THEN issued ELSE Append(issued, NoDelta)
         /\ IF DEMO_MODE /\ ~r.threw
            THEN /\ demoStatuses' =
                      demoSet(demoStatuses, r.offerings[id].momo_reference_id,
                              [status |-> "PENDING",
                               referenceNumber |-> r.offerings[id].reference_number,
                               financialTransactionId |-> NULL])
                 /\ timers' = timers \cup {r.offerings[id].momo_reference_id}
            ELSE UNCHANGED <<demoStatuses, timers>>

\* callbacks.js router.post('/momo'): missing externalId or status, or an unknown status
WebhookInvalid(externalId, status) ==
  /\ UNCHANGED tokenVars
  /\ UNCHANGED <<sweeps, nextSweepAt>>
  /\ resp = NoResp
  /\ UNCHANGED <<DEMO_MODE, demoStatuses, timers, submits>>
  /\ externalId = MissingRef \/ status = NULL \/ status \notin ValidStatuses
  /\ resp' = Answer("invalid", 400)
  /\ UNCHANGED <<clock, tzOffset, offerings, daily_summaries, pending_queue, polls, issued>>

\* callbacks.js router.post('/momo')
Webhook(externalId, status, financialTransactionId, fault) ==
  /\ UNCHANGED tokenVars
  /\ UNCHANGED <<sweeps, nextSweepAt>>
  /\ resp = NoResp
  /\ UNCHANGED <<DEMO_MODE, demoStatuses, timers, submits>>
  /\ ~(externalId = MissingRef \/ status = NULL \/ status \notin ValidStatuses)
  /\ UNCHANGED <<clock, tzOffset, pending_queue, polls>>
  /\ LET r == updateStatusTxn_cb(offerings, daily_summaries, externalId, status,
                                 financialTransactionId, clock, fault)
     IN  /\ offerings' = r.offerings
         /\ daily_summaries' = r.daily_summaries
         /\ resp' = Report(r, getOfferingByRef(offerings, externalId), status, FALSE)
         /\ issued' = Issue(getOfferingByRef(offerings, externalId), r)

\* offerings.js router.put('/:referenceNumber/status'): missing or unknown status
PutStatusInvalid(status) ==
  /\ UNCHANGED tokenVars
  /\ UNCHANGED <<sweeps, nextSweepAt>>
  /\ resp = NoResp
  /\ UNCHANGED <<DEMO_MODE, demoStatuses, timers, submits>>
  /\ status = NULL \/ status \notin ValidStatuses
  /\ resp' = Answer("invalid", 400)
  /\ UNCHANGED <<clock, tzOffset, offerings, daily_summaries, pending_queue, polls, issued>>

\* offerings.js router.put('/:referenceNumber/status')
PutStatus(referenceNumber, status, financialTxnId, fault) ==
  /\ UNCHANGED tokenVars
  /\ UNCHANGED <<sweeps, nextSweepAt>>
  /\ resp = NoResp
  /\ UNCHANGED <<DEMO_MODE, demoStatuses, timers, submits>>
  /\ ~(status = NULL \/ status \notin ValidStatuses)
  /\ UNCHANGED <<clock, tzOffset, pending_queue, polls>>
  /\ LET r == updateStatusTxn(offerings, daily_summaries, referenceNumber, status,
                              financialTxnId, clock, fault)
     IN  /\ offerings' = r.offerings
         /\ daily_summaries' = r.daily_summaries
         /\ resp' = Report(r, getOfferingByRef(offerings, referenceNumber), status, FALSE)
         /\ issued' = Issue(getOfferingByRef(offerings, referenceNumber), r)

\* The poll without its early return for a terminal status: it always asks the provider
PollStartAlwaysAsks(referenceNumber) ==
  /\ UNCHANGED tokenVars
  /\ UNCHANGED <<sweeps, nextSweepAt>>
  /\ resp = NoResp
  /\ UNCHANGED <<DEMO_MODE, demoStatuses, timers, submits>>
  /\ UNCHANGED <<clock, tzOffset, offerings, daily_summaries, pending_queue, issued>>
  /\ LET i == getOfferingByRef(offerings, referenceNumber)
     IN  IF i = 0
         THEN /\ resp' = Answer("notfound", 404)
              /\ polls' = polls
         ELSE /\ Cardinality(polls) < MaxPolls
              /\ polls' = polls \cup {[reference_number |-> referenceNumber,
                                       status |-> offerings[i].status]}
              /\ resp' = [NoResp EXCEPT !.call = "await", !.row = i]

\* offerings.js router.get('/:referenceNumber/status'), up to `await momoService.checkStatus`
PollStart(referenceNumber) ==
  /\ UNCHANGED tokenVars
  /\ UNCHANGED <<sweeps, nextSweepAt>>
  /\ resp = NoResp
  /\ UNCHANGED <<DEMO_MODE, demoStatuses, timers, submits>>
  /\ UNCHANGED <<clock, tzOffset, offerings, daily_summaries, pending_queue, issued>>
  /\ LET i == getOfferingByRef(offerings, referenceNumber)
     IN  IF i = 0
         THEN /\ resp' = Answer("notfound", 404)
              /\ polls' = polls
         ELSE IF offerings[i].status = "SUCCESSFUL" \/ offerings[i].status = "FAILED"
         THEN /\ resp' = [Answer("terminal", 200) EXCEPT
                            !.row = i, !.status = offerings[i].status]
              /\ polls' = polls
         ELSE /\ Cardinality(polls) < MaxPolls
              /\ polls' = polls \cup {[reference_number |-> referenceNumber,
                                       status |-> offerings[i].status]}
              /\ resp' = [NoResp EXCEPT !.call = "await", !.row = i]

\* The poll letting the failure of checkStatus reach its outer catch: HTTP 500
PollFailsHard(p) ==
  /\ UNCHANGED tokenVars
  /\ UNCHANGED <<sweeps, nextSweepAt>>
  /\ resp = NoResp
  /\ UNCHANGED <<DEMO_MODE, demoStatuses, timers, submits>>
  /\ p \in polls
  /\ polls' = polls \ {p}
  /\ resp' = [Answer("threw", 500) EXCEPT
                !.row = getOfferingByRef(offerings, p.reference_number)]
  /\ UNCHANGED <<clock, tzOffset, offerings, daily_summaries, pending_queue, issued>>

\* offerings.js router.get('/:referenceNumber/status'): checkStatus threw
PollFails(p) ==
  /\ UNCHANGED tokenVars
  /\ UNCHANGED <<sweeps, nextSweepAt>>
  /\ resp = NoResp
  /\ UNCHANGED <<DEMO_MODE, demoStatuses, timers, submits>>
  /\ p \in polls
  /\ polls' = polls \ {p}
  /\ resp' = [Answer("momoError", 200) EXCEPT
                !.row = getOfferingByRef(offerings, p.reference_number),
                !.status = p.status]
  /\ UNCHANGED <<clock, tzOffset, offerings, daily_summaries, pending_queue, issued>>

\* The poll writing the provider's status itself (updateOfferingStatus only) instead of
\* calling updateStatusTxn
PollReturnsStatusOnly(p, status, financialTransactionId, fault) ==
  /\ UNCHANGED tokenVars
  /\ UNCHANGED <<sweeps, nextSweepAt>>
  /\ resp = NoResp
  /\ UNCHANGED <<DEMO_MODE, demoStatuses, timers, submits>>
  /\ p \in polls
  /\ polls' = polls \ {p}
  /\ UNCHANGED <<clock, tzOffset, pending_queue, daily_summaries, issued>>
  /\ LET newStatus == status
         financialTxnId == OrNull(financialTransactionId)
         i == getOfferingByRef(offerings, p.reference_number)
     IN  IF newStatus # NULL /\ newStatus # p.status
         THEN /\ offerings' = updateOfferingStatus(offerings, newStatus, financialTxnId,
                                                   p.reference_number, clock)
              /\ resp' = [Answer("changed", 200) EXCEPT
                            !.row = i, !.target = newStatus, !.old = offerings[i].status,
                            !.stale = offerings[i].status # p.status,
                            !.status = newStatus]
         ELSE /\ UNCHANGED offerings
              /\ resp' = [Answer("same", 200) EXCEPT
                            !.row = i,
                            !.status = IF newStatus # NULL THEN newStatus ELSE p.status]

\* offerings.js router.get('/:referenceNumber/status'): checkStatus returned momoStatus
PollReturns(p, status, financialTransactionId, fault) ==
  /\ UNCHANGED tokenVars
  /\ UNCHANGED <<sweeps, nextSweepAt>>
  /\ resp = NoResp
  /\ UNCHANGED <<DEMO_MODE, demoStatuses, timers, submits>>
  /\ p \in polls
  /\ polls' = polls \ {p}
  /\ UNCHANGED <<clock, tzOffset, pending_queue>>
  /\ LET newStatus == status
         financialTxnId == OrNull(financialTransactionId)
     IN  IF newStatus # NULL /\ newStatus # p.status
         THEN LET r == updateStatusTxn(offerings, daily_summaries, p.reference_number,
                                       newStatus, financialTxnId, clock, fault)
              IN  /\ offerings' = r.offerings
                  /\ daily_summaries' = r.daily_summaries
                  /\ resp' = [Report(r, getOfferingByRef(offerings, p.reference_number),
                                      newStatus, r.old # p.status)
                                 EXCEPT !.code = IF r.threw THEN 500 ELSE 200,
                                        !.status = IF r.threw THEN NULL ELSE newStatus]
                  /\ issued' = Issue(getOfferingByRef(offerings, p.reference_number), r)
         ELSE /\ UNCHANGED <<offerings, daily_summaries, issued>>
              /\ resp' = [Answer("same", 200) EXCEPT
                            !.row = getOfferingByRef(offerings, p.reference_number),
                            !.status = IF newStatus # NULL THEN newStatus ELSE p.status]

\* Would updateStatusTxn(referenceNumber, status, ...) reach its two writes?
Writes(referenceNumber, status) ==
  LET i == getOfferingByRef(offerings, referenceNumber)
  IN  i # 0 /\ offerings[i].status # status

\* The faults worth injecting into a call: none unless it writes; a rolled-back call
\* leaves no trace of the settlement id it carried
FaultsOf(referenceNumber, status, financialTxnId) ==
  IF Writes(referenceNumber, status) /\ financialTxnId = "FT1" THEN Faults ELSE {"none"}

Next ==
  \/ Tick
  \/ EndTurn
  \/ \E req \in OfferingInputs : PostOfferingInvalid(req.phone, req.amount, req.category)
  \/ \E req \in OfferingInputs, accepted \in BOOLEAN :
       \E fault \in (IF accepted THEN Faults ELSE {"none"}) :
          PostOffering(req.phone, req.amount, req.category, fault, accepted)
  \/ \E externalId \in {UnknownRef, MissingRef}, status \in {UnrecognizedStatus, NULL} :
        WebhookInvalid(externalId, status)
  \/ \E externalId \in RefInputs, status \in ValidStatuses, financialTransactionId \in FtIds :
       \E fault \in FaultsOf(externalId, status, financialTransactionId) :
          Webhook(externalId, status, financialTransactionId, fault)
  \/ \E status \in {UnrecognizedStatus, NULL} : PutStatusInvalid(status)
  \/ \E referenceNumber \in RefInputs, status \in ValidStatuses, financialTxnId \in FtIds :
       \E fault \in FaultsOf(referenceNumber, status, financialTxnId) :
          PutStatus(referenceNumber, status, financialTxnId, fault)
  \/ \E referenceNumber \in RefInputs : PollStart(referenceNumber)
  \/ \E p \in polls : PollFails(p)
  \/ \E p \in polls, status \in ProviderStatuses, financialTransactionId \in FtIds :
       \E fault \in (IF status # NULL /\ status # p.status
                     THEN FaultsOf(p.reference_number, status, financialTransactionId)
                     ELSE {"none"}) :
          PollReturns(p, status, financialTransactionId, fault)

Spec == Init /\ [][Next]_vars

\* ------------------------------------------------------------------ demo mode

\* The settlement id the simulated success carries ('FT' + Date.now() in base 36)
DemoFtId == "FTDEMO"

\* SELECT * FROM offerings WHERE momo_reference_id = ?  (0 when there is no row)
getOfferingByMomoRef(o, referenceId) ==
  IF \E i \in 1 .. Len(o) : o[i].momo_reference_id = referenceId
  THEN CHOOSE i \in 1 .. Len(o) : o[i].momo_reference_id = referenceId
  ELSE 0

\* momoService.js requestToPay, DEMO_MODE: the setTimeout callback.  It stores the
\* simulated outcome and, when the row is still PENDING, runs UPDATE offerings and
\* UPDATE daily_summaries as two separate statements (no transaction); a statement
\* that throws (fault) ends the callback in its catch, earlier writes staying.
DemoTimer(referenceId, simulatedStatus, fault) ==
  /\ UNCHANGED tokenVars
  /\ UNCHANGED <<sweeps, nextSweepAt>>
  /\ resp = NoResp
  /\ DEMO_MODE
  /\ referenceId \in timers
  /\ timers' = timers \ {referenceId}
  /\ UNCHANGED <<DEMO_MODE, submits>>
  /\ UNCHANGED <<clock, tzOffset, pending_queue, polls, issued>>
  /\ LET financialTxnId == IF simulatedStatus = "SUCCESSFUL" THEN DemoFtId ELSE NULL
         i == getOfferingByMomoRef(offerings, referenceId)
     IN  /\ demoStatuses' =
              demoSet(demoStatuses, referenceId,
                      [status |-> simulatedStatus,
                       referenceNumber |-> demoStatuses[referenceId].referenceNumber,
                       financialTransactionId |-> financialTxnId])
         /\ resp' = [NoResp EXCEPT !.call = "timer", !.row = i]
         /\ IF i # 0 /\ offerings[i].status = "PENDING" /\ fault # "first_write"
            THEN /\ offerings' = [offerings EXCEPT ![i].status = simulatedStatus,
                                                   ![i].financial_txn_id = financialTxnId,
                                                   ![i].updated_at = clock]
                 /\ daily_summaries' =
                      IF fault = "second_write" THEN daily_summaries
                      ELSE updateDailySummaryCounters(
                             daily_summaries,
                             IF simulatedStatus = "SUCCESSFUL" THEN 1 ELSE 0,
                             IF simulatedStatus = "FAILED" THEN 1 ELSE 0,
                             DateOf(offerings[i].created_at), offerings[i].category_code)
            ELSE UNCHANGED <<offerings, daily_summaries>>

\* The server started with DEMO_MODE=true
DemoInit ==
  /\ clock = 0
  /\ tzOffset \in TZOffsets
  /\ offerings = << >>
  /\ daily_summaries = << >>
  /\ pending_queue = << >>
  /\ polls = {}
  /\ resp = NoResp
  /\ issued = << >>
  /\ DEMO_MODE = TRUE
  /\ demoStatuses = << >>
  /\ timers = {}
  /\ submits = {}
  /\ sweeps = {}
  /\ nextSweepAt = 0
  /\ TokenCacheEmpty

DemoNext ==
  \/ Tick
  \/ EndTurn
  \/ \E req \in OfferingInputs, fault \in Faults :
        PostOffering(req.phone, req.amount, req.category, fault, TRUE)
  \/ \E externalId \in RefInputs, status \in ValidStatuses :
        Webhook(externalId, status, "", "none")
  \/ \E referenceId \in timers, simulatedStatus \in {"SUCCESSFUL", "FAILED"},
        fault \in Faults :
        DemoTimer(referenceId, simulatedStatus, fault)

DemoSpec == DemoInit /\ [][DemoNext]_vars

\* ------------------------------------------------------------------ creation, step by step

\* offerings.js router.post('/') up to `await momoService.requestToPay` (real mode):
\* validation passed, createOfferingTxn ran; when it threw the outer catch answers
\* 500, otherwise the submission is in flight with the handler's refNumber,
\* momoRefId and parsedAmount
PostOfferingBegin(phone, amount, category, fault) ==
  /\ UNCHANGED tokenVars
  /\ UNCHANGED <<sweeps, nextSweepAt>>
  /\ resp = NoResp
  /\ ~DEMO_MODE
  /\ ~InvalidOffering(phone, amount, category)
  /\ Len(offerings) < MaxOfferings
  /\ UNCHANGED <<DEMO_MODE, demoStatuses, timers>>
  /\ UNCHANGED <<clock, tzOffset, pending_queue, polls>>
  /\ LET parsedAmount == parseFloat(amount).value
         r == createOfferingTxn(offerings, daily_summaries, category, parsedAmount,
                                clock, tzOffset, fault)
         id == Len(r.offerings)
     IN  /\ offerings' = r.offerings
         /\ daily_summaries' = r.daily_summaries
         /\ issued' = IF r.threw THEN issued ELSE Append(issued, NoDelta)
         /\ IF r.threw
            THEN /\ resp' = Answer("threw", 500)
                 /\ submits' = submits
            ELSE /\ resp' = [NoResp EXCEPT !.call = "submitting", !.row = id]
                 /\ submits' = submits \cup
                      {[refNumber |-> r.offerings[id].reference_number,
                        momoRefId |-> r.offerings[id].momo_reference_id,
                        parsedAmount |-> parsedAmount,
                        phone |-> phone, message |-> DefaultMessage(category)]}

\* offerings.js router.post('/'): requestToPay resolved, the 202 response
SubmitAccepted(sub) ==
  /\ UNCHANGED tokenVars
  /\ UNCHANGED <<sweeps, nextSweepAt>>
  /\ resp = NoResp
  /\ sub \in submits
  /\ submits' = submits \ {sub}
  /\ resp' = [Answer("created", 202) EXCEPT
                !.row = getOfferingByRef(offerings, sub.refNumber)]
  /\ UNCHANGED <<DEMO_MODE, demoStatuses, timers>>
  /\ UNCHANGED <<clock, tzOffset, offerings, daily_summaries, pending_queue, polls, issued>>

\* The creation handler without the try/catch around requestToPay: the rejection
\* reaches the outer catch, which answers 500 and queues nothing
SubmitFailsHard(sub, queueFault) ==
  /\ UNCHANGED tokenVars
  /\ UNCHANGED <<sweeps, nextSweepAt>>
  /\ resp = NoResp
  /\ sub \in submits
  /\ submits' = submits \ {sub}
  /\ resp' = [Answer("threw", 500) EXCEPT
                !.row = getOfferingByRef(offerings, sub.refNumber)]
  /\ UNCHANGED <<DEMO_MODE, demoStatuses, timers>>
  /\ UNCHANGED <<clock, tzOffset, offerings, daily_summaries, pending_queue, polls, issued>>

\* offerings.js router.post('/'): requestToPay rejected (token request or submission
\* failed, provider unreachable, runtime timeout); the catch queues the retry entry
\* (an INSERT that throws, queueFault, is caught and logged) and the 202 response
\* follows
SubmitFails(sub, queueFault) ==
  /\ UNCHANGED tokenVars
  /\ UNCHANGED <<sweeps, nextSweepAt>>
  /\ resp = NoResp
  /\ sub \in submits
  /\ submits' = submits \ {sub}
  /\ pending_queue' =
       IF queueFault THEN pending_queue
       ELSE insertPendingQueue(pending_queue, sub.refNumber, sub.momoRefId,
                               sub.parsedAmount, sub.phone, sub.message, clock)
  /\ resp' = [Answer("queued", 202) EXCEPT
                !.row = getOfferingByRef(offerings, sub.refNumber)]
  /\ UNCHANGED <<DEMO_MODE, demoStatuses, timers>>
  /\ UNCHANGED <<clock, tzOffset, offerings, daily_summaries, polls, issued>>

CreationNext ==
  \/ Tick
  \/ EndTurn
  \/ \E req \in OfferingInputs : PostOfferingInvalid(req.phone, req.amount, req.category)
  \/ \E req \in OfferingInputs, fault \in Faults :
        PostOfferingBegin(req.phone, req.amount, req.category, fault)
  \/ \E sub \in submits : SubmitAccepted(sub)
  \/ \E sub \in submits, queueFault \in BOOLEAN : SubmitFails(sub, queueFault)
  \/ \E externalId \in RefInputs, status \in ValidStatuses :
        Webhook(externalId, status, "", "none")

CreationSpec == Init /\ [][CreationNext]_vars

\* ------------------------------------------------------------------ retry worker

\* retryWorker.js constants; time is counted in minutes here
RETRY_INTERVAL_MINUTES == 1
MAX_RETRIES == 5
COOLDOWN_MINUTES == 2
BATCH_SIZE == 10

\* The place of a pending_queue row that DELETE removed: rowids are AUTOINCREMENT,
\* never reused, so the place stays taken
DeletedRow == [deleted |-> TRUE]

\* WHERE retry_count < ? AND (last_attempt_at IS NULL OR
\*                            last_attempt_at < datetime('now', '-2 minutes'))
Eligible(q, maxRetries, now) ==
  {i \in 1 .. Len(q) :
     /\ q[i] # DeletedRow
     /\ q[i].retry_count < maxRetries
     /\ \/ q[i].last_attempt_at = NeverAttempted
        \/ q[i].last_attempt_at < now - COOLDOWN_MINUTES}

\* ORDER BY created_at ASC: the rows S of q, oldest first (equal times in rowid order,
\* the order in which SQLite's scan feeds its sorter)
OldestFirst(q, S) ==
  LET Before(x, y) == \/ q[x].created_at < q[y].created_at
                      \/ q[x].created_at = q[y].created_at /\ x < y
  IN  [k \in 1 .. Cardinality(S) |->
         CHOOSE x \in S : Cardinality({y \in S : Before(y, x)}) = k - 1]

\* getPendingItems without `retry_count < ?`
getPendingItemsNoBudget(q, maxRetries, limit, now) ==
  LET sorted == OldestFirst(q, Eligible(q, maxRetries + 1000, now))
      n == IF Len(sorted) < limit THEN Len(sorted) ELSE limit
  IN  [k \in 1 .. n |->
         [id |-> sorted[k],
          reference_number |-> q[sorted[k]].reference_number,
          momo_reference_id |-> q[sorted[k]].momo_reference_id,
          amount |-> q[sorted[k]].amount,
          phone_number |-> q[sorted[k]].phone_number,
          payer_message |-> q[sorted[k]].payer_message]]

\* getPendingItems without `LIMIT ?`
getPendingItemsNoLimit(q, maxRetries, limit, now) ==
  LET sorted == OldestFirst(q, Eligible(q, maxRetries, now))
  IN  [k \in 1 .. Len(sorted) |->
         [id |-> sorted[k],
          reference_number |-> q[sorted[k]].reference_number,
          momo_reference_id |-> q[sorted[k]].momo_reference_id,
          amount |-> q[sorted[k]].amount,
          phone_number |-> q[sorted[k]].phone_number,
          payer_message |-> q[sorted[k]].payer_message]]

\* retryWorker.js getPendingItems.all(maxRetries, limit): the selected columns of the
\* first `limit` eligible rows
getPendingItems(q, maxRetries, limit, now) ==
  LET sorted == OldestFirst(q, Eligible(q, maxRetries, now))
      n == IF Len(sorted) < limit THEN Len(sorted) ELSE limit
  IN  [k \in 1 .. n |->
         [id |-> sorted[k],
          reference_number |-> q[sorted[k]].reference_number,
          momo_reference_id |-> q[sorted[k]].momo_reference_id,
          amount |-> q[sorted[k]].amount,
          phone_number |-> q[sorted[k]].phone_number,
          payer_message |-> q[sorted[k]].payer_message]]

\* retryWorker.js deleteQueueItem: DELETE FROM pending_queue WHERE id = ?
deleteQueueItem(q, id) ==
  IF id \in 1 .. Len(q) THEN [q EXCEPT ![id] = DeletedRow] ELSE q

\* incrementRetry without `retry_count = retry_count + 1`
incrementRetryTimeOnly(q, id, now) ==
  IF id \in 1 .. Len(q) /\ q[id] # DeletedRow
  THEN [q EXCEPT ![id].last_attempt_at = now]
  ELSE q

\* incrementRetry without `last_attempt_at = CURRENT_TIMESTAMP`
incrementRetryKeepsTime(q, id, now) ==
  IF id \in 1 .. Len(q) /\ q[id] # DeletedRow
  THEN [q EXCEPT ![id].retry_count = @ + 1]
  ELSE q

\* retryWorker.js incrementRetry: retry_count + 1, last_attempt_at = now (no row: no-op)
incrementRetry(q, id, now) ==
  IF id \in 1 .. Len(q) /\ q[id] # DeletedRow
  THEN [q EXCEPT ![id].retry_count = @ + 1, ![id].last_attempt_at = now]
  ELSE q

\* The sweep sw after the attempt of its current item ended at time now: the next
\* item's requestToPay is called at once, or the sweep is over
Advance(S, sw, now) ==
  IF sw.pos < Len(sw.items)
  THEN (S \ {sw}) \cup {[sw EXCEPT !.pos = @ + 1, !.started = now]}
  ELSE S \ {sw}

\* Time passes, one minute at a time; a timer that is due fires first
RetryTick ==
  /\ UNCHANGED tokenVars
  /\ resp = NoResp
  /\ clock < MaxRetryClock
  /\ clock < nextSweepAt
  /\ clock' = clock + 1
  /\ UNCHANGED <<tzOffset, offerings, daily_summaries, pending_queue, polls, resp, issued,
                 DEMO_MODE, demoStatuses, timers, submits, sweeps, nextSweepAt>>

\* processPendingQueue that leaves out entries whose transaction is no longer PENDING
processPendingQueueSkipsSettled ==
  /\ UNCHANGED tokenVars
  /\ resp = NoResp
  /\ ~DEMO_MODE
  /\ clock = nextSweepAt
  /\ Cardinality(sweeps) < MaxSweeps
  /\ nextSweepAt' = clock + RETRY_INTERVAL_MINUTES
  /\ LET all == getPendingItems(pending_queue, MAX_RETRIES, BATCH_SIZE, clock)
         items == SelectSeq(all, LAMBDA it :
                    LET i == getOfferingByRef(offerings, it.reference_number)
                    IN  i # 0 /\ offerings[i].status = "PENDING")
     IN  sweeps' = IF Len(items) = 0 THEN sweeps
                   ELSE sweeps \cup {[at |-> clock, items |-> items, pos |-> 1,
                                      started |-> clock]}
  /\ UNCHANGED <<clock, tzOffset, offerings, daily_summaries, pending_queue, polls, resp,
                 issued, DEMO_MODE, demoStatuses, timers, submits>>

\* retryWorker.js processPendingQueue up to its first `await requestToPay`, called by
\* startRetryWorker at once and then by setInterval every RETRY_INTERVAL_MS
processPendingQueue ==
  /\ UNCHANGED tokenVars
  /\ resp = NoResp
  /\ ~DEMO_MODE
  /\ clock = nextSweepAt
  /\ Cardinality(sweeps) < MaxSweeps
  /\ nextSweepAt' = clock + RETRY_INTERVAL_MINUTES
  /\ LET items == getPendingItems(pending_queue, MAX_RETRIES, BATCH_SIZE, clock)
     IN  sweeps' = IF Len(items) = 0 THEN sweeps
                   ELSE sweeps \cup {[at |-> clock, items |-> items, pos |-> 1,
                                      started |-> clock]}
  /\ UNCHANGED <<clock, tzOffset, offerings, daily_summaries, pending_queue, polls, resp,
                 issued, DEMO_MODE, demoStatuses, timers, submits>>

\* ResubmitAccepted that also settles the transaction
ResubmitAcceptedSettles(sw) ==
  /\ UNCHANGED tokenVars
  /\ resp = NoResp
  /\ sw \in sweeps
  /\ pending_queue' = deleteQueueItem(pending_queue, sw.items[sw.pos].id)
  /\ sweeps' = Advance(sweeps, sw, clock)
  /\ LET r == updateStatusTxn(offerings, daily_summaries,
                              sw.items[sw.pos].reference_number, "SUCCESSFUL", "",
                              clock, "none")
     IN  /\ offerings' = r.offerings
         /\ daily_summaries' = r.daily_summaries
  /\ UNCHANGED <<clock, tzOffset, polls, resp, issued,
                 DEMO_MODE, demoStatuses, timers, submits, nextSweepAt>>

\* ResubmitFails without the try/catch around the attempt: the rejection ends the sweep
ResubmitFailsAborts(sw) ==
  /\ UNCHANGED tokenVars
  /\ resp = NoResp
  /\ sw \in sweeps
  /\ sweeps' = sweeps \ {sw}
  /\ UNCHANGED <<clock, tzOffset, offerings, daily_summaries, pending_queue, polls, resp,
                 issued, DEMO_MODE, demoStatuses, timers, submits, nextSweepAt>>

\* ResubmitFails that queues the failed item anew (as the creation flow does) on top of
\* counting the failure
ResubmitFailsRequeues(sw) ==
  /\ UNCHANGED tokenVars
  /\ resp = NoResp
  /\ sw \in sweeps
  /\ LET item == sw.items[sw.pos]
     IN  pending_queue' =
           insertPendingQueue(incrementRetry(pending_queue, item.id, clock),
                              item.reference_number, item.momo_reference_id, item.amount,
                              item.phone_number, item.payer_message, clock)
  /\ sweeps' = Advance(sweeps, sw, clock)
  /\ UNCHANGED <<clock, tzOffset, offerings, daily_summaries, polls, resp, issued,
                 DEMO_MODE, demoStatuses, timers, submits, nextSweepAt>>

\* processPendingQueue: requestToPay of the current item resolved
ResubmitAccepted(sw) ==
  /\ UNCHANGED tokenVars
  /\ resp = NoResp
  /\ sw \in sweeps
  /\ pending_queue' = deleteQueueItem(pending_queue, sw.items[sw.pos].id)
  /\ sweeps' = Advance(sweeps, sw, clock)
  /\ UNCHANGED <<clock, tzOffset, offerings, daily_summaries, polls, resp, issued,
                 DEMO_MODE, demoStatuses, timers, submits, nextSweepAt>>

\* processPendingQueue: requestToPay of the current item rejected
ResubmitFails(sw) ==
  /\ UNCHANGED tokenVars
  /\ resp = NoResp
  /\ sw \in sweeps
  /\ pending_queue' = incrementRetry(pending_queue, sw.items[sw.pos].id, clock)
  /\ sweeps' = Advance(sweeps, sw, clock)
  /\ UNCHANGED <<clock, tzOffset, offerings, daily_summaries, polls, resp, issued,
                 DEMO_MODE, demoStatuses, timers, submits, nextSweepAt>>

\* The server starts (startRetryWorker) with a backlog: two transactions whose first
\* submission failed, created a minute apart before the restart
RetryInit ==
  LET r1 == createOfferingTxn(<< >>, << >>, "TITHE", 2, 0, 0, "none")
      r2 == createOfferingTxn(r1.offerings, r1.daily_summaries, "OFFR", 2, 1, 0, "none")
      q1 == insertPendingQueue(<< >>, r1.offerings[1].reference_number,
                               r1.offerings[1].momo_reference_id, 2, "233240000000",
                               DefaultMessage("TITHE"), 0)
      q2 == insertPendingQueue(q1, r2.offerings[2].reference_number,
                               r2.offerings[2].momo_reference_id, 2, "233240000000",
                               DefaultMessage("OFFR"), 1)
  IN  /\ clock = 1
      /\ tzOffset = 0
      /\ offerings = r2.offerings
      /\ daily_summaries = r2.daily_summaries
      /\ pending_queue = q2
      /\ polls = {}
      /\ resp = NoResp
      /\ issued = <<NoDelta, NoDelta>>
      /\ DEMO_MODE = FALSE
      /\ demoStatuses = << >>
      /\ timers = {}
      /\ submits = {}
      /\ sweeps = {}
      /\ nextSweepAt = 1
      /\ TokenCacheEmpty

RetryNext ==
  \/ RetryTick
  \/ processPendingQueue
  \/ \E sw \in sweeps : ResubmitAccepted(sw)
  \/ \E sw \in sweeps : ResubmitFails(sw)

RetrySpec == RetryInit /\ [][RetryNext]_vars

\* ------------------------------------------------------------------ one sweep over a long backlog

\* Sizes of the backlog the startup sweep finds: a short one, and two longer than
\* BATCH_SIZE
MinBacklog == 3
MaxBacklog == 12
Backlogs == {MinBacklog, MaxBacklog - 1, MaxBacklog}

\* The minute the n-th transaction of the backlog was created (two a minute)
CreatedAt(n) == (n - 1) \div 2

\* n transactions whose first submission failed (POST /api/offerings, the catch around
\* requestToPay): each is stored PENDING with its retry entry
RECURSIVE Backlog(_)
Backlog(n) ==
  IF n = 0
  THEN [offerings |-> << >>, daily_summaries |-> << >>, pending_queue |-> << >>]
  ELSE LET b == Backlog(n - 1)
           r == createOfferingTxn(b.offerings, b.daily_summaries, "TITHE", 2,
                                  CreatedAt(n), 0, "none")
       IN  [offerings |-> r.offerings,
            daily_summaries |-> r.daily_summaries,
            pending_queue |->
              insertPendingQueue(b.pending_queue, r.offerings[n].reference_number,
                                 r.offerings[n].momo_reference_id, 2, "233240000000",
                                 DefaultMessage("TITHE"), CreatedAt(n))]

\* What earlier sweeps left on one entry: its failures counted, and how many minutes
\* ago the last one was
Histories ==
  {[retry_count |-> MAX_RETRIES, ago |-> COOLDOWN_MINUTES + 1],
   [retry_count |-> MAX_RETRIES - 1, ago |-> COOLDOWN_MINUTES + 1],
   [retry_count |-> 1, ago |-> COOLDOWN_MINUTES + 1],
   [retry_count |-> 1, ago |-> COOLDOWN_MINUTES],
   [retry_count |-> 1, ago |-> COOLDOWN_MINUTES - 1]}

\* The server starts (startRetryWorker) with a backlog of n entries, one of which (a, if
\* any) was attempted by sweeps before the restart
SelectionInit ==
  \E n \in Backlogs : \E a \in 0 .. n : \E h \in Histories :
    LET b == Backlog(n)
        now == CreatedAt(n) + COOLDOWN_MINUTES + 2
    IN  /\ clock = now
        /\ tzOffset = 0
        /\ offerings = b.offerings
        /\ daily_summaries = b.daily_summaries
        /\ pending_queue =
             IF a = 0 THEN b.pending_queue
             ELSE [b.pending_queue EXCEPT ![a].retry_count = h.retry_count,
                                          ![a].last_attempt_at = now - h.ago]
        /\ polls = {}
        /\ resp = NoResp
        /\ issued = [i \in 1 .. n |-> NoDelta]
        /\ DEMO_MODE = FALSE
        /\ demoStatuses = << >>
        /\ timers = {}
        /\ submits = {}
        /\ sweeps = {}
        /\ nextSweepAt = now
        /\ TokenCacheEmpty

\* The startup sweep, before the interval timer fires for the first time
SelectionNext ==
  \/ processPendingQueue
  \/ \E sw \in sweeps : ResubmitAccepted(sw)
  \/ \E sw \in sweeps : ResubmitFails(sw)

SelectionSpec == SelectionInit /\ [][SelectionNext]_vars

\* ------------------------------------------------------------------ creation, webhook and retry worker together

\* Time passes up to the retry worker's next timer
QueueTick ==
  /\ clock < nextSweepAt
  /\ Tick

\* The server from its start: creations whose submission may fail, webhooks, and the
\* retry worker's sweeps over the entries those creations queue
QueueNext ==
  \/ QueueTick
  \/ EndTurn
  \/ \E req \in OfferingInputs :
        PostOfferingBegin(req.phone, req.amount, req.category, "none")
  \/ \E sub \in submits : SubmitAccepted(sub)
  \/ \E sub \in submits : SubmitFails(sub, FALSE)
  \/ \E externalId \in RefInputs, status \in ValidStatuses :
        Webhook(externalId, status, "", "none")
  \/ processPendingQueue
  \/ \E sw \in sweeps : ResubmitAccepted(sw)
  \/ \E sw \in sweeps : ResubmitFails(sw)

QueueSpec == Init /\ [][QueueNext]_vars

\* ------------------------------------------------------------------ momoService.js getToken

\* Bounds of the token cache's specification: how far time runs, how many getToken
\* calls are made in all, how many of them may await the provider at once
MaxTokenClock == 4
MaxTokenCalls == 4
MaxTokenFetches == 2

\* 3500 * 1000 ms, the time a token is cached, in ticks
TOKEN_CACHE_TICKS == 2

\* The access_token the provider issues in answer to the token request of call f
TokenOf(f) == [request |-> f.id]

\* The token getToken returns in DEMO_MODE: 'demo-token-' + Date.now()
DemoToken(now) == [request |-> 0 - (now + 1)]

\* Time passes
TokenTick ==
  /\ clock < MaxTokenClock
  /\ clock' = clock + 1
  /\ UNCHANGED <<tzOffset, offerings, daily_summaries, pending_queue, polls, resp, issued,
                 DEMO_MODE, demoStatuses, timers, submits, sweeps, nextSweepAt>>
  /\ UNCHANGED tokenVars

\* momoService.js getToken up to `await fetch`, called by requestToPay and checkStatus:
\* the demo token, the cached token, or the token request is sent
getToken ==
  /\ tokenCalls < MaxTokenCalls
  /\ tokenCalls' = tokenCalls + 1
  /\ LET now == clock
     IN  IF DEMO_MODE
         THEN /\ tokenResult' = [id |-> tokenCalls + 1, how |-> "demo",
                                 token |-> DemoToken(now), asked |-> FALSE]
              /\ UNCHANGED tokenFetches
         ELSE IF cachedToken # NoToken /\ now < tokenExpiresAt
         THEN /\ tokenResult' = [id |-> tokenCalls + 1, how |-> "cached",
                                 token |-> cachedToken, asked |-> FALSE]
              /\ UNCHANGED tokenFetches
         ELSE /\ Cardinality(tokenFetches) < MaxTokenFetches
              /\ tokenFetches' = tokenFetches \cup {[id |-> tokenCalls + 1, now |-> now]}
              /\ UNCHANGED tokenResult
  /\ UNCHANGED <<cachedToken, tokenExpiresAt>>
  /\ UNCHANGED <<clock, tzOffset, offerings, daily_summaries, pending_queue, polls, resp,
                 issued, DEMO_MODE, demoStatuses, timers, submits, sweeps, nextSweepAt>>

\* A failing token request that wipes the cache
TokenRequestFailsClearsCache(f) ==
  /\ f \in tokenFetches
  /\ tokenFetches' = tokenFetches \ {f}
  /\ tokenResult' = [id |-> f.id, how |-> "threw", token |-> NoToken, asked |-> TRUE]
  /\ cachedToken' = NoToken
  /\ tokenExpiresAt' = 0
  /\ UNCHANGED tokenCalls
  /\ UNCHANGED <<clock, tzOffset, offerings, daily_summaries, pending_queue, polls, resp,
                 issued, DEMO_MODE, demoStatuses, timers, submits, sweeps, nextSweepAt>>

\* getToken: fetch rejected (provider unreachable), the answer was not ok (`throw new
\* Error`), or res.json() rejected: the call throws to its caller
TokenRequestFails(f) ==
  /\ f \in tokenFetches
  /\ tokenFetches' = tokenFetches \ {f}
  /\ tokenResult' = [id |-> f.id, how |-> "threw", token |-> NoToken, asked |-> TRUE]
  /\ UNCHANGED <<cachedToken, tokenExpiresAt, tokenCalls>>
  /\ UNCHANGED <<clock, tzOffset, offerings, daily_summaries, pending_queue, polls, resp,
                 issued, DEMO_MODE, demoStatuses, timers, submits, sweeps, nextSweepAt>>

\* getToken: the answer was ok and res.json() resolved; `now` is the time the call
\* started.  hasToken: does the body carry access_token?
TokenRequestReturns(f, hasToken) ==
  /\ f \in tokenFetches
  /\ tokenFetches' = tokenFetches \ {f}
  /\ cachedToken' = IF hasToken THEN TokenOf(f) ELSE NoToken
  /\ tokenExpiresAt' = f.now + TOKEN_CACHE_TICKS
  /\ tokenResult' = [id |-> f.id, how |-> "refreshed", token |-> cachedToken',
                     asked |-> TRUE]
  /\ UNCHANGED tokenCalls
  /\ UNCHANGED <<clock, tzOffset, offerings, daily_summaries, pending_queue, polls, resp,
                 issued, DEMO_MODE, demoStatuses, timers, submits, sweeps, nextSweepAt>>

\* The process has started; nothing has asked for a token yet
TokenInit ==
  /\ clock = 0
  /\ tzOffset = 0
  /\ offerings = << >>
  /\ daily_summaries = << >>
  /\ pending_queue = << >>
  /\ polls = {}
  /\ resp = NoResp
  /\ issued = << >>
  /\ DEMO_MODE \in BOOLEAN
  /\ demoStatuses = << >>
  /\ timers = {}
  /\ submits = {}
  /\ sweeps = {}
  /\ nextSweepAt = 0
  /\ TokenCacheEmpty

TokenNext ==
  \/ TokenTick
  \/ getToken
  \/ \E f \in tokenFetches : TokenRequestFails(f)
  \/ \E f \in tokenFetches, hasToken \in BOOLEAN : TokenRequestReturns(f, hasToken)

TokenSpec == TokenInit /\ [][TokenNext]_vars

\* ------------------------------------------------------------------ draining a long backlog

\* Bounds of the drain: how many creations with a failing submission arrive while the
\* backlog is drained, for how many minutes after the start they arrive, and for how
\* many minutes after the last arrival time runs on
MaxArrivals == 1
ArrivalWindow == 3
DrainHorizon == 16

\* The minute the server starts: the backlog of MaxBacklog entries is a few minutes old
DrainStart == CreatedAt(MaxBacklog) + COOLDOWN_MINUTES + 2

\* The entries whose resubmission the provider may accept (every other resubmission
\* fails, which keeps an entry queued longest): the oldest entry and the arrivals
MayBeAccepted == {1} \cup (MaxBacklog + 1 .. MaxBacklog + MaxArrivals)

\* offerings.js router.post('/') whose submission fails: createOfferingTxn, the
\* rejected requestToPay, the retry entry, the 202 response
PostOfferingQueued(phone, amount, category) ==
  /\ UNCHANGED tokenVars
  /\ UNCHANGED <<sweeps, nextSweepAt>>
  /\ resp = NoResp
  /\ ~DEMO_MODE
  /\ ~InvalidOffering(phone, amount, category)
  /\ Len(pending_queue) < MaxBacklog + MaxArrivals
  /\ clock <= DrainStart + ArrivalWindow
  /\ LET parsedAmount == parseFloat(amount).value
         r == createOfferingTxn(offerings, daily_summaries, category, parsedAmount,
                                clock, tzOffset, "none")
         id == Len(r.offerings)
     IN  /\ ~r.threw
         /\ offerings' = r.offerings
         /\ daily_summaries' = r.daily_summaries
         /\ pending_queue' =
              insertPendingQueue(pending_queue, r.offerings[id].reference_number,
                                 r.offerings[id].momo_reference_id, parsedAmount, phone,
                                 DefaultMessage(category), clock)
         /\ resp' = [Answer("queued", 202) EXCEPT !.row = id]
         /\ issued' = Append(issued, NoDelta)
  /\ UNCHANGED <<clock, tzOffset, polls, DEMO_MODE, demoStatuses, timers, submits>>

\* A minute passes; the provider has answered every resubmission sent in it
DrainTick ==
  /\ resp = NoResp
  /\ sweeps = {}
  /\ clock < DrainStart + ArrivalWindow + DrainHorizon
  /\ clock < nextSweepAt
  /\ clock' = clock + 1
  /\ UNCHANGED <<tzOffset, offerings, daily_summaries, pending_queue, polls, resp, issued,
                 DEMO_MODE, demoStatuses, timers, submits, sweeps, nextSweepAt>>
  /\ UNCHANGED tokenVars

\* The provider accepts the resubmission of an entry it may accept
DrainAccepted(sw) ==
  /\ sw.items[sw.pos].id \in MayBeAccepted
  /\ ResubmitAccepted(sw)

\* The server starts (startRetryWorker) with a backlog of MaxBacklog entries
DrainInit ==
  LET b == Backlog(MaxBacklog)
  IN  /\ clock = DrainStart
      /\ tzOffset = 0
      /\ offerings = b.offerings
      /\ daily_summaries = b.daily_summaries
      /\ pending_queue = b.pending_queue
      /\ polls = {}
      /\ resp = NoResp
      /\ issued = [i \in 1 .. MaxBacklog |-> NoDelta]
      /\ DEMO_MODE = FALSE
      /\ demoStatuses = << >>
      /\ timers = {}
      /\ submits = {}
      /\ sweeps = {}
      /\ nextSweepAt = DrainStart
      /\ TokenCacheEmpty

\* A resubmission in flight is answered
ProviderAnswers == \E sw \in sweeps : DrainAccepted(sw) \/ ResubmitFails(sw)

DrainNext ==
  \/ DrainTick
  \/ EndTurn
  \/ PostOfferingQueued("233240000000", <<"2">>, "OFFR")
  \/ processPendingQueue
  \/ \E sw \in sweeps : DrainAccepted(sw)
  \/ \E sw \in sweeps : ResubmitFails(sw)

\* The timer fires every minute (setInterval), handlers run to their end, and every
\* provider call returns
DrainSpec ==
  /\ DrainInit
  /\ [][DrainNext]_vars
  /\ WF_vars(DrainTick)
  /\ WF_vars(EndTurn)
  /\ WF_vars(processPendingQueue)
  /\ WF_vars(ProviderAnswers)

\* ------------------------------------------------------------------ buckets

Ids == 1 .. Len(offerings)

\* The bucket createOfferingTxn counted a transaction into: today's server-local date
\* (the date its reference number carries) and its category
CreationBucket(offering) == <<offering.reference_number.date, offering.category_code>>

\* The bucket updateStatusTxn adjusts for a transaction: the date part of its stored
\* created_at and its category
TransitionBucket(offering) == <<DateOf(offering.created_at), offering.category_code>>

Ind(b) == IF b THEN 1 ELSE 0

\* [new = SUCCESSFUL] - [old = SUCCESSFUL] and [new = FAILED] - [old = FAILED]
SuccessDelta(old, new) == Ind(new = "SUCCESSFUL") - Ind(old = "SUCCESSFUL")
FailedDelta(old, new) == Ind(new = "FAILED") - Ind(old = "FAILED")

\* daily_summaries s with the counters of row k moved by x and y (s when there is no row k)
Adjusted(s, k, x, y) ==
  IF k \in DOMAIN s
  THEN [s EXCEPT ![k].success_count = @ + x, ![k].failed_count = @ + y]
  ELSE s

StatusChanged(i) == offerings'[i].status # offerings[i].status

\* This step is a transition call (by the webhook, the manual update or a returning
\* poll) for row i with target status new, none of its writes failing
TransitionCall(i, new) ==
  /\ resp = NoResp
  /\ resp'.row = i
  /\ resp'.target = new
  /\ resp'.call # "threw"

\* ------------------------------------------------------------------ properties

\* C1: in every daily bucket, success_count is the number of the bucket's
\* transactions whose status is SUCCESSFUL and failed_count the number whose status
\* is FAILED, a transaction's bucket being the one it was counted into at creation.
C1_CountersMatchStatuses ==
  \A k \in DOMAIN daily_summaries :
    /\ daily_summaries[k].success_count =
         Cardinality({i \in Ids : /\ CreationBucket(offerings[i]) = k
                                  /\ offerings[i].status = "SUCCESSFUL"})
    /\ daily_summaries[k].failed_count =
         Cardinality({i \in Ids : /\ CreationBucket(offerings[i]) = k
                                  /\ offerings[i].status = "FAILED"})

\* C2: a transition call whose target is the status the transaction already holds
\* reports "unchanged" and writes nothing: status, settlement id, update timestamp
\* and every counter stay as they were.
C2_SameStatusNoOp ==
  [][\A i \in Ids :
       TransitionCall(i, offerings[i].status)
         => /\ resp'.call = "unchanged"
            /\ offerings' = offerings
            /\ daily_summaries' = daily_summaries
            /\ issued' = issued]_vars

\* A webhook or manual update repeating the stored terminal status, carrying another
\* settlement id at a later time, has just been answered "unchanged"
C2_Witness ==
  /\ resp.call = "unchanged"
  /\ ~resp.stale
  /\ \E i \in Ids : /\ offerings[i].status \in {"SUCCESSFUL", "FAILED"}
                    /\ offerings[i].updated_at < clock

\* The issued deltas of every transaction add up to those of one transition from
\* PENDING to the status it holds
IssuedMatches(o, iss) ==
  \A i \in 1 .. Len(o) :
    iss[i] = [successDelta |-> Ind(o[i].status = "SUCCESSFUL"),
              failedDelta |-> Ind(o[i].status = "FAILED")]

\* C3: however many transition calls with different targets race for one reference,
\* every status the transaction takes is the target of the call that wrote it, each
\* call computes its deltas from the status stored at that moment, and the deltas
\* issued for the transaction add up to those of a single transition from its
\* initial status (PENDING) to the status it holds.
C3_RacingCallsTelescope ==
  [][/\ IssuedMatches(offerings', issued')
     /\ \A i \in Ids :
          StatusChanged(i) => /\ resp'.call = "changed"
                              /\ resp'.old = offerings[i].status
                              /\ resp'.target = offerings'[i].status]_vars

\* A call with another target has just replaced a terminal status written by an
\* earlier call for the same reference
C3_Witness ==
  /\ resp.call = "changed"
  /\ resp.old \in {"SUCCESSFUL", "FAILED"}
  /\ resp.target \in {"SUCCESSFUL", "FAILED"}
  /\ \E i \in Ids : /\ offerings[i].status = resp.target
                    /\ issued[i] = [successDelta |-> Ind(resp.target = "SUCCESSFUL"),
                                    failedDelta |-> Ind(resp.target = "FAILED")]

C6_EveryPairMovesTheBucket ==
  [][\A i \in Ids, new \in ValidStatuses :
       (/\ new # offerings[i].status
        /\ TransitionCall(i, new))
         => LET k == CreationBucket(offerings[i])
                old == offerings[i].status
            IN  /\ offerings'[i].status = new
                /\ k \in DOMAIN daily_summaries
                /\ daily_summaries'[k].success_count =
                     daily_summaries[k].success_count + SuccessDelta(old, new)
                /\ daily_summaries'[k].failed_count =
                     daily_summaries[k].failed_count + FailedDelta(old, new)]_vars

\* C7: the status write and the counter write of a transition happen in one step or
\* not at all: a call that throws leaves status and counters as they were, a step
\* that changes a status also applies that change's deltas to the row addressed,
\* and no step moves a success or failed counter without changing a status.
C7_StatusAndCountersTogether ==
  [][/\ resp'.call = "threw" => UNCHANGED <<offerings, daily_summaries, issued>>
     /\ \A i \in Ids :
          StatusChanged(i)
            => daily_summaries' =
                 Adjusted(daily_summaries, TransitionBucket(offerings[i]),
                          SuccessDelta(offerings[i].status, offerings'[i].status),
                          FailedDelta(offerings[i].status, offerings'[i].status))
     /\ (\E k \in DOMAIN daily_summaries :
            \/ daily_summaries'[k].success_count # daily_summaries[k].success_count
            \/ daily_summaries'[k].failed_count # daily_summaries[k].failed_count)
          => \E i \in Ids : StatusChanged(i)]_vars

\* A transition whose write failed has been rolled back: the call found a row,
\* threw, and the row still holds the status it found
C7_Witness ==
  /\ resp.call = "threw"
  /\ resp.old # NULL
  /\ \E i \in Ids : offerings[i].status = resp.old

\* C8: the bucket a transaction was counted into at creation (server-local date) is
\* the bucket its transitions adjust (date of the stored created_at).
C8_CreationBucketIsTransitionBucket ==
  \A i \in Ids : CreationBucket(offerings[i]) = TransitionBucket(offerings[i])

RECURSIVE SumAmounts(_, _)
SumAmounts(o, S) ==
  IF S = {} THEN 0
  ELSE LET i == CHOOSE x \in S : TRUE
       IN  o[i].amount + SumAmounts(o, S \ {i})

MembersOf(o, k) == {i \in 1 .. Len(o) : CreationBucket(o[i]) = k}

TotalsMatch(o, s) ==
  /\ \A i \in 1 .. Len(o) : CreationBucket(o[i]) \in DOMAIN s
  /\ \A k \in DOMAIN s :
       /\ s[k].total_count = Cardinality(MembersOf(o, k))
       /\ s[k].total_amount = SumAmounts(o, MembersOf(o, k))

\* C9: total_count and total_amount of every bucket are the number and the amount
\* sum of the transactions created in it, whatever their status; a creation stores
\* a PENDING transaction, adds 1 and its amount to its bucket and leaves every
\* success_count and failed_count as it was (0 in a new bucket).
C9_TotalsCountCreations ==
  [][/\ TotalsMatch(offerings', daily_summaries')
     /\ Len(offerings') # Len(offerings)
          => LET n == Len(offerings')
                 k == CreationBucket(offerings'[n])
             IN  /\ n = Len(offerings) + 1
                 /\ offerings'[n].status = "PENDING"
                 /\ daily_summaries'[k].success_count =
                      IF k \in DOMAIN daily_summaries
                      THEN daily_summaries[k].success_count ELSE 0
                 /\ daily_summaries'[k].failed_count =
                      IF k \in DOMAIN daily_summaries
                      THEN daily_summaries[k].failed_count ELSE 0
                 /\ \A x \in DOMAIN daily_summaries \ {k} :
                      daily_summaries'[x] = daily_summaries[x]]_vars

\* A bucket holds two creations, one of them settled since
C9_Witness ==
  \E k \in DOMAIN daily_summaries :
    /\ daily_summaries[k].total_count = 2
    /\ daily_summaries[k].total_amount = 4
    /\ \E i \in MembersOf(offerings, k) : offerings[i].status # "PENDING"

\* C10: the stored status of every transaction is PENDING, SUCCESSFUL or FAILED.
C10_StatusDomain ==
  \A i \in Ids : offerings[i].status \in ValidStatuses

\* C11: a transition call (webhook or manual update) whose reference matches no
\* stored transaction is answered "not found" with HTTP 404, not with an internal
\* error, and changes nothing: no transaction, no counter, no retry entry.
C11_UnknownReferenceNotFound ==
  [][(resp = NoResp /\ resp'.target # NULL /\ resp'.row = 0)
       => /\ resp'.call = "notfound"
          /\ resp'.code = 404
          /\ offerings' = offerings
          /\ daily_summaries' = daily_summaries
          /\ pending_queue' = pending_queue
          /\ issued' = issued]_vars

\* A transition for an unknown reference has just been answered 404 while
\* transactions are stored
C11_Witness ==
  /\ resp.call = "notfound"
  /\ resp.code = 404
  /\ resp.target \in ValidStatuses
  /\ resp.row = 0
  /\ Len(offerings) > 0

\* An amount text that is a number: an optional sign and digits, nothing else
IsNumeric(s) ==
  /\ s # << >>
  /\ LET body == IF Head(s) = "-" THEN Tail(s) ELSE s
     IN  body # << >> /\ \A k \in 1 .. Len(body) : body[k] \in DigitChars

\* A creation request that must be rejected: a missing field, a non-numeric or
\* non-positive amount, an unknown category
MustReject(req) ==
  \/ req.phone = NULL
  \/ req.amount = << >>
  \/ req.category = NULL
  \/ ~IsNumeric(req.amount)
  \/ parseFloat(req.amount).value <= 0
  \/ req.category \notin Categories

\* C12: a creation request with a missing field, a non-positive or non-numeric
\* amount or an unknown category is answered with a client error (400) and changes
\* nothing: no transaction, no aggregate, no retry entry.
C12_InvalidCreationRejected ==
  [][\A req \in OfferingInputs :
       (/\ MustReject(req)
        /\ \/ PostOfferingInvalid(req.phone, req.amount, req.category)
           \/ \E fault \in Faults, accepted \in BOOLEAN :
                PostOffering(req.phone, req.amount, req.category, fault, accepted))
         => /\ resp'.code = 400
            /\ offerings' = offerings
            /\ daily_summaries' = daily_summaries
            /\ pending_queue' = pending_queue]_vars

\* C13: the settlement id of a transaction is written only by a transition to
\* SUCCESSFUL: a step that sets, replaces or clears financial_txn_id leaves the
\* transaction SUCCESSFUL and is a change of status.
C13_SettlementIdOnlyBySuccess ==
  [][\A i \in Ids :
       offerings'[i].financial_txn_id # offerings[i].financial_txn_id
         => /\ offerings'[i].status = "SUCCESSFUL"
            /\ offerings[i].status # "SUCCESSFUL"]_vars

\* C19: a poll of a transaction whose stored status is SUCCESSFUL or FAILED answers
\* that status at once (HTTP 200), starts no query to the provider and changes
\* nothing.
C19_TerminalPollAnswersLocally ==
  [][\A i \in Ids :
       (/\ resp = NoResp
        /\ resp'.row = i
        /\ resp'.call \in {"terminal", "await"}
        /\ offerings[i].status \in {"SUCCESSFUL", "FAILED"})
         => /\ resp'.call = "terminal"
            /\ resp'.code = 200
            /\ resp'.status = offerings[i].status
            /\ polls' = polls
            /\ offerings' = offerings
            /\ daily_summaries' = daily_summaries
            /\ pending_queue' = pending_queue
            /\ issued' = issued]_vars

\* A poll of a FAILED transaction has just been answered from the store while
\* another transaction is still PENDING
C19_Witness ==
  /\ resp.call = "terminal"
  /\ resp.status = "FAILED"
  /\ resp.row \in Ids
  /\ offerings[resp.row].status = "FAILED"
  /\ \E j \in Ids : offerings[j].status = "PENDING"

UniqueIdentifiers(o) ==
  \A i, j \in 1 .. Len(o) :
    i # j => /\ o[i].reference_number # o[j].reference_number
             /\ o[i].momo_reference_id # o[j].momo_reference_id

\* C15: after every step, whatever the sequence of creations, all stored
\* transactions have pairwise different references and pairwise different
\* correlation ids, and the step has changed neither identifier of a transaction
\* that was already stored (nor removed the transaction).
C15_IdentifiersUniqueAndFixed ==
  [][/\ UniqueIdentifiers(offerings')
     /\ Len(offerings') >= Len(offerings)
     /\ \A i \in Ids :
          /\ offerings'[i].reference_number = offerings[i].reference_number
          /\ offerings'[i].momo_reference_id = offerings[i].momo_reference_id]_vars

\* Two transactions of one category created on one day are stored, the second with
\* the next sequence number, and one of them has changed status since
C15_Witness ==
  /\ Len(offerings) = 2
  /\ offerings[1].category_code = offerings[2].category_code
  /\ offerings[1].reference_number.date = offerings[2].reference_number.date
  /\ offerings[2].reference_number.seq = offerings[1].reference_number.seq + 1
  /\ offerings[1].status = "SUCCESSFUL"

\* Some success_count or failed_count differs between s and t
CountersChanged(s, t) ==
  \E k \in DOMAIN s :
    \/ k \notin DOMAIN t
    \/ t[k].success_count # s[k].success_count
    \/ t[k].failed_count # s[k].failed_count

\* C14: every step that changes the status of a transaction or a success_count or
\* failed_count is a call of the transition operation reporting the change; no
\* driver or collaborator writes either directly.
C14_OnlyTransitionsWrite ==
  [][((\E i \in Ids : StatusChanged(i)) \/ CountersChanged(daily_summaries, daily_summaries'))
       => resp'.call = "changed"]_vars

\* total_count and total_amount of bucket k in s (zero when s has no row k)
TotalsOf(s, k) ==
  IF k \in DOMAIN s
  THEN [total_count |-> s[k].total_count, total_amount |-> s[k].total_amount]
  ELSE [total_count |-> 0, total_amount |-> 0]

\* C16: a step stores a new transaction exactly when it increments an aggregate: the
\* new row is PENDING and its bucket's total_count and total_amount grow by one and
\* by its amount in the same step; every submission in flight or just answered
\* belongs to a transaction already stored; and a stored transaction is never
\* removed, whether its submission is accepted, fails or stays unanswered.
C16_StoredBeforeSubmission ==
  [][/\ Len(offerings') \in {Len(offerings), Len(offerings) + 1}
     /\ \A i \in Ids : offerings'[i].reference_number = offerings[i].reference_number
     /\ \A sub \in submits' :
          /\ getOfferingByRef(offerings', sub.refNumber) # 0
          /\ sub \notin submits
               => /\ Len(offerings') = Len(offerings) + 1
                  /\ offerings'[Len(offerings')].reference_number = sub.refNumber
     /\ Len(offerings') = Len(offerings) + 1
          => LET new == offerings'[Len(offerings')]
                 k == CreationBucket(new)
             IN  /\ new.status = "PENDING"
                 /\ TotalsOf(daily_summaries', k) =
                      [total_count |-> TotalsOf(daily_summaries, k).total_count + 1,
                       total_amount |-> TotalsOf(daily_summaries, k).total_amount
                                          + new.amount]
     /\ Len(offerings') = Len(offerings)
          => \A k \in DOMAIN daily_summaries' :
               TotalsOf(daily_summaries', k) = TotalsOf(daily_summaries, k)]_vars

\* One submission failed and was queued, another is still unanswered after the
\* clock has advanced: both transactions are stored
C16_Witness ==
  /\ Len(pending_queue) = 1
  /\ Cardinality(submits) = 1
  /\ clock > 0
  /\ \A sub \in submits :
       /\ getOfferingByRef(offerings, sub.refNumber) # 0
       /\ offerings[getOfferingByRef(offerings, sub.refNumber)].created_at < clock
  /\ getOfferingByRef(offerings, pending_queue[1].reference_number) # 0

\* This step answers the creation request of submission sub with 202, naming the
\* stored transaction that carries sub's reference and correlation id
AnsweredAccepted(sub) ==
  /\ resp'.code = 202
  /\ resp'.row \in Ids
  /\ offerings[resp'.row].reference_number = sub.refNumber
  /\ offerings[resp'.row].momo_reference_id = sub.momoRefId
  /\ offerings' = offerings
  /\ daily_summaries' = daily_summaries

\* C17: when the first submission of a created transaction fails, the handler adds
\* one retry entry for that transaction, with retry counter 0 and no last-attempt
\* time, and answers 202 with the transaction's reference and correlation id (it
\* answers 202 even when the insert of the retry entry itself throws); when the
\* submission is accepted it answers 202 and the retry queue is unchanged.
C17_FailedSubmissionIsQueued ==
  [][\A sub \in submits :
       /\ SubmitFails(sub, FALSE)
            => /\ AnsweredAccepted(sub)
               /\ Len(pending_queue') = Len(pending_queue) + 1
               /\ SubSeq(pending_queue', 1, Len(pending_queue)) = pending_queue
               /\ LET e == pending_queue'[Len(pending_queue')]
                  IN  /\ e.reference_number = sub.refNumber
                      /\ e.momo_reference_id = sub.momoRefId
                      /\ e.retry_count = 0
                      /\ e.last_attempt_at = NeverAttempted
       /\ SubmitFails(sub, TRUE) => AnsweredAccepted(sub)
       /\ SubmitAccepted(sub)
            => /\ AnsweredAccepted(sub)
               /\ pending_queue' = pending_queue]_vars

\* Of two stored transactions the first was accepted by the provider and the
\* submission of the second has just failed: one retry entry, for the second
C17_Witness ==
  /\ resp.call = "queued"
  /\ resp.code = 202
  /\ resp.row = 2
  /\ submits = {}
  /\ Len(pending_queue) = 1
  /\ pending_queue[1].reference_number = offerings[2].reference_number
  /\ pending_queue[1].retry_count = 0

\* C18: a creation request that passes validation, handled without any storage
\* fault, is never answered with an error: its first step leaves the submission in
\* flight, to be answered 202 whatever the provider does.
C18_ValidCreationNeverFails ==
  [][\A req \in OfferingInputs :
       PostOfferingBegin(req.phone, req.amount, req.category, "none")
         => /\ resp'.call = "submitting"
            /\ resp'.code # 500
            /\ Len(offerings') = Len(offerings) + 1]_vars

\* C21: a poll does not keep waiting for the provider: by the time the clock
\* advances (a clock step being longer than any timeout of a status query) every
\* poll has answered, so no poll is awaiting checkStatus across a clock step.
C21_NoPollOutlastsTheTimeout ==
  [][clock' # clock => polls = {}]_vars

\* The answers of the poll handler that carry a status
PollAnswers == {"terminal", "momoError", "same", "changed", "unchanged"}

\* C22: the status in a poll's response is the status the transaction has in the
\* store when the response is produced, also after a webhook or a manual update
\* changed the transaction while the poll awaited the provider.
C22_PollReportsStoredStatus ==
  (resp.call \in PollAnswers /\ resp.status # NULL /\ resp.row \in Ids)
    => resp.status = offerings[resp.row].status

\* The sweeps this step started, and the queue rows they selected
NewSweeps == {sw \in sweeps' : \A old \in sweeps : old.at # sw.at}
Selected == UNION {{sw.items[k].id : k \in 1 .. Len(sw.items)} : sw \in NewSweeps}

\* The rows of the retry queue that are stored
StoredRows(q) == {i \in 1 .. Len(q) : q[i] # DeletedRow}

\* C23: no sweep selects an entry whose retry counter has reached the budget
\* MAX_RETRIES, however long ago its last attempt was.
C23_ExhaustedNeverSelected ==
  [][\A sw \in NewSweeps : \A k \in 1 .. Len(sw.items) :
       pending_queue[sw.items[k].id].retry_count < MAX_RETRIES]_vars

\* A sweep has just run while an entry with an exhausted budget, its cooldown long
\* over, is stored, and selected nothing
C23_Witness ==
  /\ nextSweepAt = clock + RETRY_INTERVAL_MINUTES
  /\ \A sw \in sweeps : sw.at # clock
  /\ \E i \in StoredRows(pending_queue) :
       /\ pending_queue[i].retry_count >= MAX_RETRIES
       /\ pending_queue[i].last_attempt_at < clock - COOLDOWN_MINUTES

\* C24: a sweep does not select an entry before COOLDOWN_MINUTES have passed since
\* a resubmission of it was begun, whether that attempt has ended or is still
\* awaiting the provider.
C24_CooldownFromAttemptStart ==
  [][\A id \in Selected :
       /\ \A sw \in sweeps :
            sw.items[sw.pos].id = id => clock >= sw.started + COOLDOWN_MINUTES
       /\ pending_queue[id].last_attempt_at # NeverAttempted
            => clock >= pending_queue[id].last_attempt_at + COOLDOWN_MINUTES]_vars

\* C25: at no time are two resubmissions of one retry entry awaiting the provider.
C25_OneResubmissionInFlight ==
  \A sw1, sw2 \in sweeps :
    sw1 # sw2 => sw1.items[sw1.pos].id # sw2.items[sw2.pos].id

\* C26: the retry counter of every stored entry is at most MAX_RETRIES.
C26_BudgetNeverExceeded ==
  \A i \in StoredRows(pending_queue) : pending_queue[i].retry_count <= MAX_RETRIES

\* A sweep took a step: it started, or one of its attempts ended
SweepStep == sweeps' # sweeps \/ nextSweepAt' # nextSweepAt \/ pending_queue' # pending_queue

\* C28: no step of a sweep (its start, an accepted resubmission, a failed one, the
\* failure that exhausts the budget) changes a transaction or an aggregate counter,
\* and an accepted resubmission removes the entry while its transaction keeps its status
C28_SweepLeavesTransactionsAlone ==
  [][/\ SweepStep => offerings' = offerings /\ daily_summaries' = daily_summaries
     /\ \A sw \in sweeps :
          ResubmitAccepted(sw) =>
            LET item == sw.items[sw.pos]
                row == getOfferingByRef(offerings, item.reference_number)
            IN  /\ pending_queue'[item.id] = DeletedRow
                /\ row \in 1 .. Len(offerings)
                /\ offerings'[row].status = offerings[row].status]_vars

\* C28 witness: one entry was accepted and removed, another has used up its budget, and
\* both transactions are still PENDING
C28_Witness ==
  /\ \E i \in 1 .. Len(pending_queue) : pending_queue[i] = DeletedRow
  /\ \E i \in StoredRows(pending_queue) : pending_queue[i].retry_count >= MAX_RETRIES
  /\ \A i \in 1 .. Len(offerings) : offerings[i].status = "PENDING"

\* The entry of item is removed or its failed attempt was counted by this step
AttemptSettled(item) ==
  \/ pending_queue'[item.id] = DeletedRow
  \/ /\ pending_queue[item.id] # DeletedRow
     /\ pending_queue'[item.id].retry_count = pending_queue[item.id].retry_count + 1

\* C29: a sweep is never dropped before its last item: in every step each running sweep
\* either stays as it is, or its current item's attempt ended (entry removed, or retry
\* counter incremented) and the sweep goes on to its next item or, after the last item,
\* is over
C29_FailureNeverAbortsSweep ==
  [][\A sw \in sweeps :
       \/ sw \in sweeps'
       \/ /\ AttemptSettled(sw.items[sw.pos])
          /\ IF sw.pos < Len(sw.items)
             THEN \E nx \in sweeps' :
                    nx.at = sw.at /\ nx.items = sw.items /\ nx.pos = sw.pos + 1
             ELSE \A nx \in sweeps' : nx.at # sw.at]_vars

\* C29 witness: a sweep is at its second item after the attempt of its first item
\* failed (the first entry is stored with its failure counted at this sweep's time)
C29_Witness ==
  \E sw \in sweeps :
    /\ sw.pos = 2
    /\ pending_queue[sw.items[1].id] # DeletedRow
    /\ pending_queue[sw.items[1].id].retry_count >= 1
    /\ pending_queue[sw.items[1].id].last_attempt_at >= sw.at

\* C30: when no sweep is running, no stored entry has its retry counter at the budget
C30_ExhaustedEntryIsDeleted ==
  sweeps = {} =>
    \A i \in StoredRows(pending_queue) : pending_queue[i].retry_count < MAX_RETRIES

\* The stored entries a sweep starting now may take: retry counter below the budget,
\* never attempted or last attempted more than the cooldown ago
MayBeTaken ==
  {i \in StoredRows(pending_queue) :
     /\ pending_queue[i].retry_count < MAX_RETRIES
     /\ \/ pending_queue[i].last_attempt_at = NeverAttempted
        \/ clock - pending_queue[i].last_attempt_at > COOLDOWN_MINUTES}

\* The entries a running sweep holds
Held(sw) == {sw.items[k].id : k \in 1 .. Len(sw.items)}

\* C27: a sweep that starts takes only entries that may be taken, each once, all of them
\* when they are at most BATCH_SIZE and otherwise BATCH_SIZE of them, none of which was
\* created later than one it leaves; and the only entries a step ever writes are
\* entries some running sweep took
C27_SweepSelection ==
  [][/\ \A sw \in NewSweeps :
          /\ Held(sw) \subseteq MayBeTaken
          /\ Len(sw.items) = Cardinality(Held(sw))
          /\ Cardinality(Held(sw)) =
               IF Cardinality(MayBeTaken) <= BATCH_SIZE
               THEN Cardinality(MayBeTaken) ELSE BATCH_SIZE
          /\ \A i \in Held(sw), j \in MayBeTaken \ Held(sw) :
               pending_queue[i].created_at <= pending_queue[j].created_at
     /\ (nextSweepAt' # nextSweepAt /\ MayBeTaken # {}) => NewSweeps # {}
     /\ \A i \in 1 .. Len(pending_queue) :
          pending_queue'[i] # pending_queue[i] => \E sw \in sweeps : i \in Held(sw)]_vars

\* C27 witness: a sweep has just taken BATCH_SIZE entries and left both an entry that
\* might have been taken (the newest) and one that may not
C27_Witness ==
  \E sw \in sweeps :
    /\ sw.at = clock /\ sw.pos = 1
    /\ Len(sw.items) = BATCH_SIZE
    /\ MayBeTaken \ Held(sw) # {}
    /\ StoredRows(pending_queue) \ MayBeTaken # {}

\* C32: a failed resubmission of a stored entry adds exactly 1 to its retry counter,
\* sets its last-attempt time to the time of the failure and leaves the entry stored
\* with every other column (reference, correlation id, amount, payer, note, creation
\* time) as it was; no other entry changes
C32_FailureCountsAndKeepsEntry ==
  [][\A sw \in sweeps :
       (ResubmitFails(sw) /\ pending_queue[sw.items[sw.pos].id] # DeletedRow) =>
         LET id == sw.items[sw.pos].id
             e == pending_queue[id]
         IN  /\ pending_queue'[id] # DeletedRow
             /\ pending_queue'[id].retry_count = e.retry_count + 1
             /\ pending_queue'[id].last_attempt_at = clock
             /\ pending_queue'[id].reference_number = e.reference_number
             /\ pending_queue'[id].momo_reference_id = e.momo_reference_id
             /\ pending_queue'[id].amount = e.amount
             /\ pending_queue'[id].phone_number = e.phone_number
             /\ pending_queue'[id].payer_message = e.payer_message
             /\ pending_queue'[id].created_at = e.created_at
             /\ Len(pending_queue') = Len(pending_queue)
             /\ \A j \in 1 .. Len(pending_queue) :
                  j # id => pending_queue'[j] = pending_queue[j]]_vars

\* C32 witness: an entry whose resubmission failed some minutes after it was queued and
\* again later: its counter is 2, its last attempt is later than its creation
C32_Witness ==
  \E i \in StoredRows(pending_queue) :
    /\ pending_queue[i].retry_count = 2
    /\ pending_queue[i].last_attempt_at = clock
    /\ pending_queue[i].created_at < clock
    /\ pending_queue[i].phone_number = "233240000000"

\* C34: when a poll's provider query returns a status S and the transaction still has
\* the status the poll read (no other driver acted meanwhile, no storage fault): if S
\* is the status read, the poll calls no transition and writes nothing; otherwise it
\* calls the transition, after which the stored status is S, the counters of the
\* transaction's bucket are moved by the transition's deltas and no other transaction
\* has changed
C34_PollStoresProviderStatus ==
  [][\A p \in polls :
       LET i == getOfferingByRef(offerings, p.reference_number)
           S == IF resp'.call = "same" THEN resp'.status ELSE resp'.target
       IN  (/\ resp = NoResp
            /\ polls' = polls \ {p}
            /\ resp'.call \in {"same", "changed", "unchanged"}
            /\ i # 0
            /\ offerings[i].status = p.status)
             => /\ offerings'[i].status = S
                /\ S = p.status =>
                     /\ resp'.call = "same"
                     /\ offerings' = offerings
                     /\ daily_summaries' = daily_summaries
                /\ S # p.status =>
                     /\ resp'.call = "changed"
                     /\ daily_summaries' =
                          Adjusted(daily_summaries, TransitionBucket(offerings[i]),
                                   SuccessDelta(p.status, S), FailedDelta(p.status, S))
                     /\ \A j \in Ids : j # i => offerings'[j] = offerings[j]]_vars

\* C34 witness: a poll has just stored FAILED, the status its provider query returned,
\* on a transaction nobody else had touched, and the bucket counts the failure
C34_Witness ==
  /\ resp.call = "changed"
  /\ resp.old = "PENDING"
  /\ resp.target = "FAILED"
  /\ resp.status = "FAILED"
  /\ ~resp.stale
  /\ resp.row \in Ids
  /\ offerings[resp.row].status = "FAILED"
  /\ TransitionBucket(offerings[resp.row]) \in DOMAIN daily_summaries
  /\ daily_summaries[TransitionBucket(offerings[resp.row])].failed_count >= 1

OnePerTransaction(q) ==
  \A i, j \in StoredRows(q) : q[i].reference_number = q[j].reference_number => i = j

\* C36: there is at most one stored retry entry per transaction, and the only step
\* that adds an entry is the creation flow answering after its submission failed: it
\* adds one entry, for the transaction it has just created; sweeps, webhooks and the
\* passing of time add none
C36_OneEntryPerTransaction ==
  [][/\ OnePerTransaction(pending_queue')
     /\ Len(pending_queue') # Len(pending_queue) =>
          /\ resp'.call = "queued"
          /\ resp'.row \in Ids
          /\ Len(pending_queue') = Len(pending_queue) + 1
          /\ pending_queue'[Len(pending_queue')].reference_number =
               offerings[resp'.row].reference_number
          /\ \A i \in 1 .. Len(pending_queue) :
               pending_queue'[i] = pending_queue[i]]_vars

\* C36 witness: two transactions each have their entry; a sweep has already failed on
\* one of them and a webhook has settled one of the transactions
C36_Witness ==
  /\ Cardinality(StoredRows(pending_queue)) = 2
  /\ \E i \in StoredRows(pending_queue) : pending_queue[i].retry_count >= 1
  /\ \E j \in Ids : offerings[j].status = "SUCCESSFUL"

\* The stored entries whose transaction is no longer PENDING
SettledEntries ==
  {i \in StoredRows(pending_queue) :
     \E j \in Ids : /\ offerings[j].reference_number = pending_queue[i].reference_number
                    /\ offerings[j].status \in {"SUCCESSFUL", "FAILED"}}

\* C37: a transition of a transaction leaves the retry queue as it is, and a sweep
\* that starts takes every stored entry whose retry counter is below the budget and
\* whose last attempt is none or older than the cooldown (they are fewer than
\* BATCH_SIZE here), whatever the status of its transaction
C37_SettledEntryStillResubmitted ==
  [][/\ (resp = NoResp /\ resp'.call \in {"changed", "unchanged"})
          => pending_queue' = pending_queue
     /\ nextSweepAt' # nextSweepAt =>
          /\ Cardinality(MayBeTaken) <= BATCH_SIZE
          /\ MayBeTaken # {} => NewSweeps # {}
          /\ \A sw \in NewSweeps : Held(sw) = MayBeTaken]_vars

\* C37 witness: a sweep has just taken an entry whose transaction a webhook had already
\* moved to SUCCESSFUL, and its resubmission is in flight
C37_Witness ==
  \E sw \in sweeps :
    /\ sw.at = clock
    /\ sw.items[sw.pos].id \in SettledEntries
    /\ \E j \in Ids :
         /\ offerings[j].reference_number = sw.items[sw.pos].reference_number
         /\ offerings[j].status = "SUCCESSFUL"
         /\ offerings[j].created_at < clock

\* The calls the two copies are compared on: every stored reference and an unknown
\* one, every status a caller can pass, with and without a settlement id; and, for
\* the stored references, each storage fault
TransitionInputs ==
  [referenceNumber : RefInputs,
   newStatus : ValidStatuses \cup {UnrecognizedStatus},
   financialTxnId : {NULL, "FT1"},
   fault : {"none"}]
  \cup
  [referenceNumber : RefInputs \ {UnknownRef},
   newStatus : ValidStatuses \cup {UnrecognizedStatus},
   financialTxnId : {"FT1"},
   fault : Faults \ {"none"}]

\* C38: in every stored state, on every call, the transition of callbacks.js and the
\* transition of offerings.js give the same result (not found, unchanged, changed, or
\* the same failure) and leave the same transactions and the same aggregates
C38_TransitionCopiesAgree ==
  \A c \in TransitionInputs :
    updateStatusTxn_cb(offerings, daily_summaries, c.referenceNumber, c.newStatus,
                       c.financialTxnId, clock, c.fault)
      = updateStatusTxn(offerings, daily_summaries, c.referenceNumber, c.newStatus,
                        c.financialTxnId, clock, c.fault)

\* C38 witness: a state with a SUCCESSFUL and a PENDING transaction, in which a call
\* moving the SUCCESSFUL one to FAILED changes it in both copies, a call to an unknown
\* reference is not found, and a call repeating a status is unchanged
C38_Witness ==
  /\ \E i, j \in Ids :
       /\ offerings[i].status = "SUCCESSFUL"
       /\ offerings[j].status = "PENDING"
       /\ updateStatusTxn_cb(offerings, daily_summaries, offerings[i].reference_number,
                             "FAILED", "FT1", clock, "none").value = "changed"
       /\ updateStatusTxn(offerings, daily_summaries, offerings[i].reference_number,
                          "FAILED", "FT1", clock, "none").value = "changed"
       /\ updateStatusTxn(offerings, daily_summaries, offerings[j].reference_number,
                          "PENDING", NULL, clock, "none").value = "unchanged"
  /\ updateStatusTxn_cb(offerings, daily_summaries, UnknownRef, "FAILED", NULL, clock,
                        "none").value = "notfound"

\* C31: outside DEMO_MODE, (a) a getToken call made while a token is cached and
\* unexpired returns that token at once, sends no token request and leaves the cache
\* alone; (b) a token request that succeeds stores the token it brought and the expiry
\* counted from the start of its call, and returns that token; (c) a token request that
\* fails throws to its own caller and leaves the cached token and expiry unchanged
C31_TokenCache ==
  [][~DEMO_MODE =>
       /\ (tokenCalls' = tokenCalls + 1 /\ cachedToken # NoToken /\ clock < tokenExpiresAt)
            => /\ tokenResult' = [id |-> tokenCalls + 1, how |-> "cached",
                                  token |-> cachedToken, asked |-> FALSE]
               /\ tokenFetches' = tokenFetches
               /\ cachedToken' = cachedToken
               /\ tokenExpiresAt' = tokenExpiresAt
       /\ (tokenResult' # tokenResult /\ tokenResult'.how = "refreshed")
            => /\ \E f \in tokenFetches :
                    /\ f.id = tokenResult'.id
                    /\ tokenFetches' = tokenFetches \ {f}
                    /\ tokenExpiresAt' = f.now + TOKEN_CACHE_TICKS
               /\ cachedToken' = tokenResult'.token
               /\ tokenResult'.token \in {NoToken, [request |-> tokenResult'.id]}
       /\ (tokenResult' # tokenResult /\ tokenResult'.how = "threw")
            => /\ \E f \in tokenFetches :
                    f.id = tokenResult'.id /\ tokenFetches' = tokenFetches \ {f}
               /\ cachedToken' = cachedToken
               /\ tokenExpiresAt' = tokenExpiresAt]_vars

\* C31 witness: a token request made after the cached token expired has failed, the
\* cache still holds the older token and its expiry, and another call is waiting
C31_Witness ==
  /\ ~DEMO_MODE
  /\ tokenResult.how = "threw"
  /\ cachedToken # NoToken
  /\ tokenResult.id > cachedToken.request
  /\ clock >= tokenExpiresAt
  /\ tokenExpiresAt > 0
  /\ tokenFetches # {}

\* C39: at most one token request is in flight
C39_OneRefreshInFlight == Cardinality(tokenFetches) <= 1

\* Entry i has reached a final state: REMOVED, or ABANDONED with its budget used up
Final(i) ==
  /\ i <= Len(pending_queue)
  /\ \/ pending_queue[i] = DeletedRow
     \/ pending_queue[i].retry_count >= MAX_RETRIES

\* Every entry queued so far has reached a final state
AllQueuedFinal == \A i \in 1 .. Len(pending_queue) : Final(i)

====
